---------------------------- MODULE Spec2Model ----------------------------
(***************************************************************************)
(* Model of network-device-automation:                                     *)
(*   - the shell session of UniversalNetworkExecutor: execute_commands,    *)
(*     execute_command and the output framer _handle_pagination, run       *)
(*     against a device that emits its response at arbitrary times         *)
(*     (specification SpecShell / LiveShell);                              *)
(*   - the task engine execute_task (specification SpecTask);              *)
(*   - BatchManager.batch_execute (specification SpecBatch).               *)
(* Time is counted in ticks of 0.1 s, the unit in which every sleep of the *)
(* framer is a whole number.                                               *)
(***************************************************************************)
EXTENDS Integers, Sequences, FiniteSets, TLC

\* ------------------------------------------------------------------ bounds
MaxCmds == 2
MaxPages == 1
DataLen == 30
PromptLen == 5
MaxSteps == 3
MaxItems == 3
MaxDevices == 3
MaxAtoms == 3
MaxConnects == 2
MaxDispatches == 2
MaxWriters == 2
MaxAdds == 2
MaxLookups == 2
MaxWorkers == 2

\* -------------------------------------------------------- program constants
\* universal_executor.py:165  time.sleep(0.3) after the continuation key
SleepMore == 3
\* universal_executor.py:171  time.sleep(0.5), the grace interval
SleepGrace == 5
\* universal_executor.py:179  time.sleep(0.2), the poll interval
SleepPoll == 2
\* universal_executor.py:176  "> 3" seconds without data
IdleTimeout == 30
\* universal_executor.py:170,176  len(output) > 50
MinLen == 50
\* universal_executor.py:163  len("---- More ----")
TokenLen == 14

\* hard timeouts the caller passes (seconds are whole: 1 s and 4 s, in ticks)
ShortTimeout == 10
\* the hard timeout of the trailing save of execute_commands, whose 60 s are
\* scaled as the timeout of the commands is
SaveTimeout == 12
TimeoutChoices == {ShortTimeout, 40}

VARIABLES
    \* ---- shell session (universal_executor.py)
    commands, timeout, stop_on_error,   \* arguments of execute_commands
    save_config, confirm,               \* arguments of execute_commands
    response,                           \* what input() returned: "none" before
    saving,                             \* the command in flight is the trailing save
    idx,                                \* enumerate index of the for loop
    pc,                                 \* position of the executor
    results,                            \* execute_commands' results list
    result,                             \* execute_command's result dict
    output, now, start_time, last_data_time,  \* _handle_pagination locals
    chunk,                              \* _handle_pagination: the chunk that began
                                        \* a grace interval, until the next iteration
    sent,                               \* everything written with shell.send
    avail,                              \* bytes received and not yet read
    closed,                             \* the channel is closed
    \* ---- device at the other end of the channel
    dev_in, dev_last, dev_c, dev_j,
    \* ---- history
    emitted, rd_base, cmd_pos, keys_sent,
    \* ---- task engine (universal_executor.py, execute_task)
    t_task,        \* the task: [variables, steps]
    t_vars,        \* the variables dict, in insertion order: <<key, value>>
    t_pc,          \* position of the engine
    t_mode,        \* "forward", or "rollback" inside _execute_rollback
    t_si,          \* index of the step of the for loop of execute_task
    t_rb, t_ri,    \* the rollback list, reversed, and the index into it
    t_step,        \* the step _execute_step is running
    t_items, t_li, \* the items of the loop and the index of the current one
    t_cmds, t_ci,  \* execute_commands: the resolved commands and the index
    t_res,         \* execute_commands: its results list
    t_result,      \* the result dict of execute_task
    t_log,         \* history: every command dispatched to the device
    t_calls,       \* history: every call of _execute_commands_in_step
    \* --- BatchManager (batch_manager.py)
    b_devices,     \* self.devices: the sequence of hosts
    b_parallel,    \* the parallel argument of batch_execute
    b_workers,     \* the max_workers argument of batch_execute
    b_pc,          \* batch_execute: "run" or "done" (returned)
    b_job,         \* per device, the position of its execute_on_device call
    b_result,      \* per device, the result dict of its execute_on_device call
    b_results,     \* self.results
    b_open,        \* the devices whose session is opened and not closed
    b_fate,        \* history: per device, what happened to it
    b_summary,     \* the counts _display_summary prints
    \* --- _resolve_variables(text, variables) on its own
    r_in,          \* the text argument
    r_vars,        \* the variables argument
    r_text,        \* the local `text`
    r_i,           \* the position of the for loop in variables.items()
    r_pc,          \* "loop" or "done" (returned)
    \* --- connect / execute_command / disconnect on one executor
    s_connection,  \* self.connection: 0 for None, or the number of the SSHClient
    s_shell,       \* self.shell: 0 for None, or the SSHClient the channel is of
    s_live,        \* the SSHClients that are connected and not closed
    s_channels,    \* the SSHClients whose shell channel is open
    s_selected,    \* history: what the last connect selected
    s_count,       \* the number of connect calls made
    s_log,         \* history: the dispatches of execute_command
    \* --- ExperienceManager (experience_manager.py) used by several workers
    x_manager,     \* per worker, the ExperienceManager object it uses
    x_index,       \* per ExperienceManager, self.index["experiences"]
    x_disk,        \* the experiences of index.json on disk
    x_files,       \* the experience files on disk: name and the call that wrote it
    x_pc,          \* per worker, its position in add_experience
    x_id,          \* per worker, the local new_id
    x_calls,       \* per worker, the number of add_experience calls it has begun
    \* --- main (universal_executor.py), the command line entry
    m_path,        \* "task", "commands" or "none": which of the two was given
    m_pc,          \* "connect", "run" or "exit"
    m_connected,   \* what executor.connect returned
    m_exit,        \* the exit code of the process, -1 while it runs
    \* --- _normalize_device_type on its own
    n_log          \* history: the lookups made, [arg, tag, mode]

shellVars == <<commands, timeout, stop_on_error, save_config, confirm, response, saving, chunk,
               idx, pc, results, result,
               output, now, start_time, last_data_time, sent, avail, closed,
               dev_in, dev_last, dev_c, dev_j,
               emitted, rd_base, cmd_pos, keys_sent>>

taskVars == <<t_task, t_vars, t_pc, t_mode, t_si, t_rb, t_ri, t_step, t_items, t_li,
              t_cmds, t_ci, t_res, t_result, t_log, t_calls>>

batchVars == <<b_summary, b_devices, b_parallel, b_workers, b_pc, b_job, b_result, b_results,
               b_open, b_fate>>

resolveVars == <<r_in, r_vars, r_text, r_i, r_pc>>

sessionVars == <<s_connection, s_shell, s_live, s_channels, s_selected, s_count, s_log>>

experienceVars == <<x_manager, x_index, x_disk, x_files, x_pc, x_id, x_calls>>

mainVars == <<m_path, m_pc, m_connected, m_exit>>

notShell == <<taskVars, batchVars, resolveVars, sessionVars, experienceVars, mainVars, n_log>>
notTask == <<shellVars, batchVars, resolveVars, sessionVars, experienceVars, mainVars, n_log>>
notBatch == <<shellVars, taskVars, resolveVars, sessionVars, experienceVars, mainVars, n_log>>
notResolve == <<shellVars, taskVars, batchVars, sessionVars, experienceVars, mainVars, n_log>>
notSession == <<shellVars, taskVars, batchVars, resolveVars, experienceVars, mainVars, n_log>>
notExperience == <<shellVars, taskVars, batchVars, resolveVars, sessionVars, mainVars, n_log>>
notMain == <<batchVars, resolveVars, sessionVars, experienceVars, n_log>>
notNormalize == <<shellVars, taskVars, batchVars, resolveVars, sessionVars, experienceVars,
                  mainVars>>

\* ------------------------------------------------------------------- text
\* A command text is a sequence of atoms: <<"lit", word, n>> is the literal
\* text `word` (numbered n) and <<"ph", name, 0>> is the placeholder {{name}}.
Lit(w, n) == <<"lit", w, n>>
Ph(name) == <<"ph", name, 0>>

\* Output text is a sequence of blocks, see below.
\* Text is a sequence of blocks <<kind, c, j>>; a block is never split by
\* the channel, except the pagination token, which travels as two halves.
BlockLen(b) ==
    CASE b[1] = "data"   -> DataLen
      [] b[1] = "more_a" -> TokenLen \div 2
      [] b[1] = "more_b" -> TokenLen - (TokenLen \div 2)
      [] b[1] = "prompt" -> PromptLen

RECURSIVE TextLen(_)
TextLen(s) == IF s = <<>> THEN 0 ELSE BlockLen(Head(s)) + TextLen(Tail(s))

\* "---- More ----" in chunk
NoToken(ch) == FALSE
HasToken(ch) ==
    \E i \in 1..(Len(ch) - 1) :
        ch[i][1] = "more_a" /\ ch[i + 1][1] = "more_b"

\* number of occurrences of the token in a text
CountTokens(s) ==
    Cardinality({i \in 1..(Len(s) - 1) :
                    s[i][1] = "more_a" /\ s[i + 1][1] = "more_b"})

\* re.search(r'<\w+>|\[\S+\]', chunk)
PromptMatch(ch) == \E i \in 1..Len(ch) : ch[i][1] = "prompt"

\* ----------------------------------------------------------------- device
\* The device answers the command it read at position c of its input with
\* pages of data: <<"data", c, j>> is page j, each page but the last is
\* followed by the pagination token, and the answer ends with the prompt,
\* or without one.  dev_last is the last thing it did for that answer.
IsKey(x) == x = <<Lit(" ", 0)>>

\* the device reads its next input: a key typed at the prompt is ignored, a
\* command line starts a new answer (the previous one ended without prompt)
DevAccept ==
    /\ ~closed
    /\ dev_last \in {"none", "cmd", "data", "prompt"}
    /\ dev_in <= Len(sent)
    /\ dev_in' = dev_in + 1
    /\ IF IsKey(sent[dev_in])
         THEN UNCHANGED <<dev_last, dev_c, dev_j>>
         ELSE dev_last' = "cmd" /\ dev_c' = dev_in /\ dev_j' = 1
    /\ UNCHANGED <<commands, timeout, stop_on_error, save_config, confirm, response, saving, chunk,
                   idx, pc, results, result,
                   output, now, start_time, last_data_time, sent, avail, closed,
                   emitted, rd_base, cmd_pos, keys_sent>>
    /\ UNCHANGED notShell

\* what the device may emit next
NextBlocks ==
    CASE dev_last \in {"cmd", "page"} -> {<<"data", dev_c, dev_j>>}
      [] dev_last = "data" ->
            {<<"prompt", dev_c, 0>>}
            \cup (IF dev_j <= MaxPages THEN {<<"more_a", dev_c, dev_j>>} ELSE {})
      [] dev_last = "more_a" -> {<<"more_b", dev_c, dev_j>>}
      [] OTHER -> {}

\* the device emits the next block of its answer, at any time
DevEmit ==
    /\ ~closed
    /\ \E b \in NextBlocks :
        /\ avail' = Append(avail, b)
        /\ emitted' = Append(emitted, b)
        /\ dev_last' = b[1]
    /\ UNCHANGED <<commands, timeout, stop_on_error, save_config, confirm, response, saving, chunk,
                   idx, pc, results, result,
                   output, now, start_time, last_data_time, sent, closed,
                   dev_in, dev_c, dev_j, rd_base, cmd_pos, keys_sent>>
    /\ UNCHANGED notShell

\* the pager of the device, waiting after the token, takes the next input as
\* its continuation key and goes on with the next page
DevKey ==
    /\ ~closed
    /\ dev_last = "more_b"
    /\ dev_in <= Len(sent)
    /\ dev_in' = dev_in + 1
    /\ dev_last' = "page"
    /\ dev_j' = dev_j + 1
    /\ UNCHANGED <<commands, timeout, stop_on_error, save_config, confirm, response, saving, chunk,
                   idx, pc, results, result,
                   output, now, start_time, last_data_time, sent, avail, closed,
                   dev_c, emitted, rd_base, cmd_pos, keys_sent>>
    /\ UNCHANGED notShell

\* ----------------------------------------------------------------- framer
\* shell.send writes, or raises because the stream is broken; a broken
\* stream stays broken, and the device emits nothing more on it
SendOutcomes == IF closed THEN {FALSE} ELSE BOOLEAN

\* while time.time() - start_time < timeout
WhileCondFromLastData == now - last_data_time < timeout
WhileCond == now - start_time < timeout

PromptTriggerNever(ch, out) == FALSE
\* re.search(...) and len(output) > 50, on the chunk just read
PromptTrigger(ch, out) == PromptMatch(ch) /\ TextLen(out) > MinLen

\* time.time() - last_data_time > 3 and len(output) > 50
IdleWithoutGate(t, last, out) == t - last > IdleTimeout
IdleTrigger(t, last, out) == t - last > IdleTimeout /\ TextLen(out) > MinLen

\* output += chunk
AccumulateLastChunk(out, ch) == ch
Accumulate(out, ch) == out \o ch

\* the framer returns `out`: execute_command stores it and reports success
FramerReturn(out) ==
    /\ result' = [result EXCEPT !.output = out, !.success = TRUE]
    /\ pc' = "ec_ret"

\* an exception leaves _handle_pagination: execute_command's except branch
FramerRaise ==
    /\ result' = [result EXCEPT !.error = "exception"]
    /\ pc' = "ec_ret"

\* the end of an iteration that did not `continue`: idle check, then sleep
IterTail(last, out) ==
    IF IdleTrigger(now, last, out)
      THEN FramerReturn(out) /\ now' = now
      ELSE /\ now' = now + SleepPoll
           /\ pc' = "fr_loop"
           /\ UNCHANGED result

\* one iteration of the while loop, up to its sleep
FramerIter ==
    /\ pc = "fr_loop"
    /\ IF ~WhileCond
         THEN /\ FramerReturn(output)
              /\ chunk' = <<>>
              /\ UNCHANGED <<output, now, last_data_time, sent, avail, keys_sent, closed>>
         ELSE IF avail # <<>>
           THEN LET read == avail
                    out == Accumulate(output, read)
                IN  /\ chunk' = IF ~HasToken(read) /\ PromptTrigger(read, out)
                                  THEN read ELSE <<>>
                    /\ output' = out
                    /\ avail' = <<>>
                    /\ last_data_time' = now
                    /\ IF HasToken(read)
                         THEN \E ok \in SendOutcomes :
                                /\ closed' = ~ok
                                /\ IF ok
                                     THEN /\ sent' = Append(sent, <<Lit(" ", 0)>>)
                                          /\ keys_sent' = keys_sent + 1
                                          /\ now' = now + SleepMore
                                          /\ UNCHANGED <<pc, result>>
                                     ELSE /\ FramerRaise
                                          /\ UNCHANGED <<now, sent, keys_sent>>
                         ELSE /\ UNCHANGED <<sent, keys_sent, closed>>
                              /\ IF PromptTrigger(read, out)
                                   THEN /\ now' = now + SleepGrace
                                        /\ pc' = "fr_grace"
                                        /\ UNCHANGED result
                                   ELSE IterTail(now, out)
           ELSE /\ IterTail(last_data_time, output)
                /\ chunk' = <<>>
                /\ UNCHANGED <<output, last_data_time, sent, avail, keys_sent, closed>>
    /\ UNCHANGED <<commands, timeout, stop_on_error, save_config, confirm, response, saving,
                   idx, results, start_time,
                   dev_in, dev_last, dev_c, dev_j,
                   emitted, rd_base, cmd_pos>>
    /\ UNCHANGED notShell

\* after the grace interval: if not shell.recv_ready(): break
FramerGrace ==
    /\ pc = "fr_grace"
    /\ chunk' = IF avail = <<>> THEN <<>> ELSE chunk
    /\ IF avail = <<>>
         THEN FramerReturn(output) /\ now' = now
         ELSE IterTail(last_data_time, output)
    /\ UNCHANGED <<commands, timeout, stop_on_error, save_config, confirm, response, saving,
                   idx, results, output,
                   start_time, last_data_time, sent, avail, closed,
                   dev_in, dev_last, dev_c, dev_j,
                   emitted, rd_base, cmd_pos, keys_sent>>
    /\ UNCHANGED notShell

\* --------------------------------------------------------------- executor
\* if 'save' in cmd.lower() and 'force' not in cmd.lower(): cmd = 'save force'
\* the words of the model that contain "save", and "force", in any case
SaveWords == {"save", "SAVE", "save force", "display saved-configuration"}
ForceWords == {"save force"}
RewriteSave(cmd) ==
    IF /\ \E i \in 1..Len(cmd) : cmd[i][2] \in SaveWords
       /\ \A i \in 1..Len(cmd) : cmd[i][2] \notin ForceWords
      THEN <<Lit("save force", 0)>>
      ELSE cmd

\* for idx, cmd in enumerate(commands, 1)
CurrentCmdFromEnd == commands[Len(commands) + 1 - idx]
CurrentCmd == commands[idx]

\* after the for loop, left at its end or by break: if save_config
AfterLoop == IF save_config THEN "ec_save" ELSE "ec_done"

\* the head of the for loop and execute_command up to the framer's first
\* iteration: shell.send(command + '\n'), then the locals of the framer
DispatchNext ==
    /\ pc = "ec_loop"
    /\ IF idx <= Len(commands)
         THEN LET cmd == RewriteSave(CurrentCmd)
                  r0 == [command |-> cmd, success |-> FALSE,
                         output |-> <<>>, error |-> "None"]
              IN  \E ok \in SendOutcomes :
                  /\ closed' = ~ok
                  /\ IF ~ok
                    THEN /\ result' = [r0 EXCEPT !.error = "exception"]
                         /\ pc' = "ec_ret"
                         /\ UNCHANGED <<output, now, start_time, last_data_time,
                                        sent, rd_base, cmd_pos, keys_sent, chunk>>
                    ELSE /\ result' = r0
                         /\ chunk' = <<>>
                         /\ sent' = Append(sent, cmd)
                         /\ cmd_pos' = Len(sent) + 1
                         /\ output' = <<>>
                         /\ now' = 0
                         /\ start_time' = 0
                         /\ last_data_time' = 0
                         /\ rd_base' = Len(emitted) - Len(avail)
                         /\ keys_sent' = 0
                         /\ pc' = "fr_loop"
         ELSE /\ pc' = AfterLoop
              /\ UNCHANGED <<result, output, now, start_time, last_data_time,
                             sent, rd_base, cmd_pos, keys_sent, closed, chunk>>
    /\ UNCHANGED <<commands, timeout, stop_on_error, save_config, confirm, response, saving,
                   idx, results, avail,
                   dev_in, dev_last, dev_c, dev_j, emitted>>
    /\ UNCHANGED notShell

\* results.append(result); if not result["success"] and stop_on_error: break
RecordResult ==
    /\ pc = "ec_ret"
    /\ ~saving
    /\ results' = Append(results, result)
    /\ IF ~result.success /\ stop_on_error
         THEN pc' = AfterLoop /\ idx' = idx
         ELSE pc' = "ec_loop" /\ idx' = idx + 1
    /\ UNCHANGED <<commands, timeout, stop_on_error, save_config, confirm, response, saving, chunk,
                   result,
                   output, now, start_time, last_data_time, sent, avail, closed,
                   dev_in, dev_last, dev_c, dev_j,
                   emitted, rd_base, cmd_pos, keys_sent>>
    /\ UNCHANGED notShell

\* if confirm: response = input(...); anything but yes returns the empty list,
\* and the end of the input raises out of execute_commands
ConfirmCommands ==
    /\ pc = "ec_begin"
    /\ IF confirm
         THEN \E a \in {"yes", "no", "eof"} :
                /\ response' = a
                /\ pc' = CASE a = "yes" -> "ec_loop"
                            [] a = "no" -> "ec_done"
                            [] OTHER -> "ec_raised"
         ELSE pc' = "ec_loop" /\ response' = response
    /\ UNCHANGED <<commands, timeout, stop_on_error, save_config, confirm, saving,
                   idx, results, result, chunk,
                   output, now, start_time, last_data_time, sent, avail, closed,
                   dev_in, dev_last, dev_c, dev_j,
                   emitted, rd_base, cmd_pos, keys_sent>>
    /\ UNCHANGED notShell

\* if save_config: self.execute_command("save force", timeout=60), up to
\* the framer's first iteration
SaveConfig ==
    /\ pc = "ec_save"
    /\ saving' = TRUE
    /\ timeout' = SaveTimeout
    /\ LET cmd == <<Lit("save force", 0)>>
           r0 == [command |-> cmd, success |-> FALSE,
                  output |-> <<>>, error |-> "None"]
       IN  \E ok \in SendOutcomes :
           /\ closed' = ~ok
           /\ IF ~ok
                THEN /\ result' = [r0 EXCEPT !.error = "exception"]
                     /\ pc' = "ec_ret"
                     /\ UNCHANGED <<output, now, start_time, last_data_time,
                                    sent, rd_base, cmd_pos, keys_sent, chunk>>
                ELSE /\ result' = r0
                     /\ chunk' = <<>>
                     /\ sent' = Append(sent, cmd)
                     /\ cmd_pos' = Len(sent) + 1
                     /\ output' = <<>>
                     /\ now' = 0
                     /\ start_time' = 0
                     /\ last_data_time' = 0
                     /\ rd_base' = Len(emitted) - Len(avail)
                     /\ keys_sent' = 0
                     /\ pc' = "fr_loop"
    /\ UNCHANGED <<commands, stop_on_error, save_config, confirm, response,
                   idx, results, avail,
                   dev_in, dev_last, dev_c, dev_j, emitted>>
    /\ UNCHANGED notShell

\* the result of the trailing save is dropped; return results
SaveReturn ==
    /\ pc = "ec_ret"
    /\ saving
    /\ pc' = "ec_done"
    /\ UNCHANGED <<commands, timeout, stop_on_error, save_config, confirm, response, saving, chunk,
                   idx, results, result,
                   output, now, start_time, last_data_time, sent, avail, closed,
                   dev_in, dev_last, dev_c, dev_j,
                   emitted, rd_base, cmd_pos, keys_sent>>
    /\ UNCHANGED notShell

\* execute_command on a device without shell: connection.exec_command(command,
\* timeout) and the read of its stdout.  "ok": the command ran and its output
\* was read; "timeout": the request was sent and exec_command or the read
\* raised, the connection stays usable; "closed": the connection is lost and
\* nothing is sent, now and from now on
ExecOutcomes == IF closed THEN {"closed"} ELSE {"ok", "timeout", "closed"}

ExecCommand(cmd, outcome) ==
    LET r0 == [command |-> cmd, success |-> FALSE, output |-> <<>>, error |-> "None"]
    IN  /\ closed' = (outcome = "closed")
        /\ sent' = IF outcome = "closed" THEN sent ELSE Append(sent, cmd)
        /\ cmd_pos' = IF outcome = "closed" THEN cmd_pos ELSE Len(sent) + 1
        /\ result' = IF outcome = "ok"
                       THEN [r0 EXCEPT !.success = TRUE,
                                       !.output = <<<<"data", Len(sent) + 1, 1>>>>]
                       ELSE [r0 EXCEPT !.error = "exception"]
        /\ pc' = "ec_ret"

\* the head of the for loop and execute_command, without shell
ExecNext ==
    /\ pc = "ec_loop"
    /\ IF idx <= Len(commands)
         THEN \E outcome \in ExecOutcomes : ExecCommand(RewriteSave(CurrentCmd), outcome)
         ELSE /\ pc' = AfterLoop
              /\ UNCHANGED <<result, sent, cmd_pos, closed>>
    /\ UNCHANGED <<commands, timeout, stop_on_error, save_config, confirm, response, saving,
                   chunk, idx, results, output, now, start_time, last_data_time, avail,
                   dev_in, dev_last, dev_c, dev_j, emitted, rd_base, keys_sent>>
    /\ UNCHANGED notShell

\* if save_config: self.execute_command("save force", timeout=60), without shell
ExecSave ==
    /\ pc = "ec_save"
    /\ saving' = TRUE
    /\ timeout' = SaveTimeout
    /\ \E outcome \in ExecOutcomes : ExecCommand(<<Lit("save force", 0)>>, outcome)
    /\ UNCHANGED <<commands, stop_on_error, save_config, confirm, response,
                   chunk, idx, results, output, now, start_time, last_data_time, avail,
                   dev_in, dev_last, dev_c, dev_j, emitted, rd_base, keys_sent>>
    /\ UNCHANGED notShell

\* the commands of test_executor.py, repeated as often as the bound asks
CmdPool == <<<<Lit("display version", 0)>>, <<Lit("display vlan", 0)>>>>
CommandList(n) == [i \in 1..n |-> CmdPool[((i - 1) % Len(CmdPool)) + 1]]

\* no lookup was made
NormalizeIdle == n_log = <<>>

\* main is not running
MainIdle == m_path = "none" /\ m_pc = "idle" /\ m_connected = FALSE /\ m_exit = -1

\* no worker uses an ExperienceManager
ExperienceIdle ==
    /\ x_manager = <<>> /\ x_index = <<>> /\ x_disk = <<>> /\ x_files = {}
    /\ x_pc = <<>> /\ x_id = <<>> /\ x_calls = <<>>

NoSelection == [client |-> 0, mode |-> "none"]
\* __init__: self.connection = None, self.shell = None
SessionIdle ==
    /\ s_connection = 0 /\ s_shell = 0 /\ s_live = {} /\ s_channels = {}
    /\ s_selected = NoSelection /\ s_count = 0 /\ s_log = <<>>

\* no call of _resolve_variables is being followed
ResolveIdle ==
    r_in = <<>> /\ r_vars = <<>> /\ r_text = <<>> /\ r_i = 0 /\ r_pc = "idle"

NoSummary == [total |-> 0, success |-> 0, failed |-> 0]
\* no batch is running
BatchIdle ==
    /\ b_devices = <<>> /\ b_parallel = FALSE /\ b_workers = 1
    /\ b_pc = "done" /\ b_job = <<>> /\ b_result = <<>> /\ b_results = <<>>
    /\ b_open = {} /\ b_fate = <<>>
    /\ b_summary = NoSummary

\* no task is running
TaskIdle ==
    /\ t_task = [variables |-> <<>>, steps |-> <<>>]
    /\ t_vars = <<>> /\ t_pc = "idle" /\ t_mode = "forward" /\ t_si = 0
    /\ t_rb = <<>> /\ t_ri = 0 /\ t_step = <<>> /\ t_items = <<>> /\ t_li = 0
    /\ t_cmds = <<>> /\ t_ci = 0 /\ t_res = <<>>
    /\ t_result = <<>> /\ t_log = <<>> /\ t_calls = <<>>

\* the banner of the device: some text and its prompt
Banner == <<<<"data", 0, 0>>, <<"prompt", 0, 0>>>>

\* the state after connect(): the shell is open; connect has read what had
\* arrived two seconds after invoke_shell, and `stale` arrived later
InitSession(stale) ==
    /\ stop_on_error \in BOOLEAN
    /\ response = "none" /\ saving = FALSE
    /\ idx = 1
    /\ results = <<>>
    /\ result = [command |-> <<>>, success |-> FALSE, output |-> <<>>, error |-> "None"]
    /\ output = <<>> /\ now = 0 /\ start_time = 0 /\ last_data_time = 0
    /\ chunk = <<>>
    /\ sent = <<>> /\ avail = stale /\ closed = FALSE
    /\ dev_in = 1 /\ dev_last = "none" /\ dev_c = 0 /\ dev_j = 0
    /\ emitted = stale /\ rd_base = 0 /\ cmd_pos = 0 /\ keys_sent = 0

\* execute_commands on a list of commands, with a short hard timeout
InitShell ==
    /\ \E n \in 1..MaxCmds : commands = CommandList(n)
    /\ timeout = ShortTimeout
    /\ save_config = FALSE /\ confirm = FALSE
    /\ pc = "ec_loop"
    /\ InitSession(<<>>)
    /\ TaskIdle
    /\ BatchIdle
    /\ ResolveIdle
    /\ SessionIdle
    /\ ExperienceIdle
    /\ MainIdle
    /\ NormalizeIdle

\* one command, with every hard timeout, with and without a late banner
InitFramer ==
    /\ commands = CommandList(1)
    /\ timeout \in TimeoutChoices
    /\ save_config = FALSE /\ confirm = FALSE
    /\ pc = "ec_loop"
    /\ (\E stale \in {<<>>, Banner} : InitSession(stale))
    /\ TaskIdle
    /\ BatchIdle
    /\ ResolveIdle
    /\ SessionIdle
    /\ ExperienceIdle
    /\ MainIdle
    /\ NormalizeIdle

\* execute_commands with every combination of its arguments; the call
\* dispatches at most MaxCmds commands, the trailing save included
CommandsCall ==
    /\ save_config \in BOOLEAN /\ confirm \in BOOLEAN
    /\ \E n \in 1..(MaxCmds - IF save_config THEN 1 ELSE 0) : commands = CommandList(n)
    /\ timeout = ShortTimeout
    /\ pc = "ec_begin"
    /\ InitSession(<<>>)

InitCommands ==
    /\ CommandsCall
    /\ TaskIdle
    /\ BatchIdle
    /\ ResolveIdle
    /\ SessionIdle
    /\ ExperienceIdle
    /\ MainIdle
    /\ NormalizeIdle

Executor == DispatchNext \/ FramerIter \/ FramerGrace \/ RecordResult
Device == DevAccept \/ DevEmit \/ DevKey

vars == <<shellVars, taskVars, batchVars, resolveVars, sessionVars, experienceVars,
          mainVars, n_log>>

NextShell == Executor \/ Device

SpecShell == InitShell /\ [][NextShell]_vars

NextCommands == ConfirmCommands \/ Executor \/ SaveConfig \/ SaveReturn \/ Device

SpecCommands == InitCommands /\ [][NextCommands]_vars

\* execute_commands on a session without shell (exec_command mode)
NextExec == ConfirmCommands \/ ExecNext \/ RecordResult \/ ExecSave \/ SaveReturn

SpecExec == InitCommands /\ [][NextExec]_vars

\* commands that hold the letters "save": the save command with and without
\* force, and the display of the saved configuration (COMMAND_MAP of
\* command_executor.py, show_startup_config)
SavePool == {<<Lit("save", 0)>>, <<Lit("save force", 0)>>,
             <<Lit("display saved-configuration", 0)>>, <<Lit("display version", 0)>>}

\* execute_commands(commands) without confirmation and without trailing
\* save, on lists of these commands
InitSaveCommands ==
    /\ \E n \in 1..MaxCmds : commands \in [1..n -> SavePool]
    /\ timeout = ShortTimeout
    /\ save_config = FALSE /\ confirm = FALSE
    /\ pc = "ec_loop"
    /\ InitSession(<<>>)
    /\ TaskIdle
    /\ BatchIdle
    /\ ResolveIdle
    /\ SessionIdle
    /\ ExperienceIdle
    /\ MainIdle
    /\ NormalizeIdle

NextExecLoop == ExecNext \/ RecordResult

SpecSaveCommands == InitSaveCommands /\ [][NextExecLoop]_vars

SpecFramer == InitFramer /\ [][NextShell]_vars

\* the executor is a running sequential program: it always takes its next step
LiveFramer == SpecFramer /\ WF_vars(Executor)

\* ------------------------------------------------------------ task engine
\* the variables dict keeps insertion order: a sequence of <<key, value>>
Has(d, k) == \E i \in 1..Len(d) : d[i][1] = k
Get(d, k) == d[CHOOSE i \in 1..Len(d) : d[i][1] = k][2]
\* variables[key] = value
Bind(d, k, v) ==
    IF Has(d, k)
      THEN [i \in 1..Len(d) |-> IF d[i][1] = k THEN <<k, v>> ELSE d[i]]
      ELSE Append(d, <<k, v>>)

\* A value of the variables dict is a string, a text as above, or, since the
\* task is loaded from JSON, a list of strings: a sequence of atoms
\* <<"elem", word, n>>, one for each string of the list.
Elem(w, n) == <<"elem", w, n>>
IsList(v) == v # <<>> /\ \A i \in 1..Len(v) : v[i][1] = "elem"

\* repr of a list of strings: ['a', 'b']
RECURSIVE ReprItems(_)
ReprItems(v) ==
    IF v = <<>> THEN <<>>
    ELSE <<Lit("'", 0), Lit(Head(v)[2], Head(v)[3]), Lit("'", 0)>>
            \o (IF Len(v) > 1 THEN <<Lit(",", 0), Lit(" ", 0)>> ELSE <<>>)
            \o ReprItems(Tail(v))

\* str(value): a string is itself, a list is its repr
Str(v) == IF IsList(v) THEN <<Lit("[", 0)>> \o ReprItems(v) \o <<Lit("]", 0)>> ELSE v

\* the characters of an atom, for the atoms a loop iterates over; every
\* other atom of these texts is a single character
CharsOfAtom(a) ==
    CASE a = Lit("10", 0) -> <<Lit("1", 0), Lit("0", 0)>>
      [] a = Lit("20", 0) -> <<Lit("2", 0), Lit("0", 0)>>
      [] a = Lit("12", 0) -> <<Lit("1", 0), Lit("2", 0)>>
      [] a = Ph("vlans") ->
            <<Lit("{", 0), Lit("{", 0), Lit("v", 0), Lit("l", 0), Lit("a", 0),
              Lit("n", 0), Lit("s", 0), Lit("}", 0), Lit("}", 0)>>
      [] OTHER -> <<a>>

\* the characters of a string, as `for item in <str>` yields them
RECURSIVE Chars(_)
Chars(text) ==
    IF text = <<>> THEN <<>> ELSE CharsOfAtom(Head(text)) \o Chars(Tail(text))

\* text.replace("{{key}}", str(value))
RECURSIVE ReplaceFirst(_, _, _)
ReplaceFirst(text, k, v) ==
    IF text = <<>> THEN <<>>
    ELSE IF Head(text) = Ph(k) THEN v \o Tail(text)
         ELSE <<Head(text)>> \o ReplaceFirst(Tail(text), k, v)
RECURSIVE Replace(_, _, _)
Replace(text, k, v) ==
    IF text = <<>> THEN <<>>
    ELSE (IF Head(text) = Ph(k) THEN v ELSE <<Head(text)>>)
            \o Replace(Tail(text), k, v)

\* for key, value in variables.items(): text = text.replace(...)
RECURSIVE ResolveFrom(_, _, _)
ResolveFrom(text, d, i) ==
    IF i > Len(d) THEN text
    ELSE ResolveFrom(Replace(text, d[i][1], Str(d[i][2])), d, i + 1)

ResolveVariables(text, d) == ResolveFrom(text, d, 1)

ResolveAll(texts, d) == [i \in 1..Len(texts) |-> ResolveVariables(texts[i], d)]

\* _resolve_variable(loop_config.get("items", []), variables): a list is
\* resolved item by item, a string is resolved and then iterated character
\* by character, anything else is returned as it is
LoopItems(loop, d) ==
    CASE loop.kind = "list" -> ResolveAll(loop.items, d)
      [] loop.kind = "ref" ->
            LET r == Chars(ResolveVariables(loop.ref, d))
            IN  [i \in 1..Len(r) |-> <<r[i]>>]
      [] OTHER -> <<>>

\* `for item in items` raises TypeError on a value that is not iterable
LoopRaises(loop) == loop.kind = "bad"

\* condition["equals"][0] / [1] raise IndexError on a shorter list
CondRaises(cond) == cond.kind = "equals" /\ Len(cond.args) < 2

ConditionAlwaysTrue(cond, d) == TRUE
EvaluateConditionBoundOnly(cond, d) ==
    CASE cond.kind = "equals" ->
            ResolveVariables(cond.args[1], d) = ResolveVariables(cond.args[2], d)
      [] cond.kind = "exists" -> Has(d, cond.name)
      [] OTHER -> TRUE
\* _evaluate_condition
EvaluateCondition(cond, d) ==
    CASE cond.kind = "equals" ->
            ResolveVariables(cond.args[1], d) = ResolveVariables(cond.args[2], d)
      [] cond.kind = "exists" -> Has(d, cond.name) /\ Get(d, cond.name) # <<>>
      [] OTHER -> TRUE

Reverse(q) == [i \in 1..Len(q) |-> q[Len(q) + 1 - i]]

\* an exception leaves the try block of execute_task
TaskRaise ==
    /\ t_result' = [t_result EXCEPT !.error = "exception"]
    /\ t_pc' = "done"
    /\ UNCHANGED <<t_si, t_mode, t_rb, t_ri>>

\* the rollback list execute_task runs after `step` failed
RollbackOfFailedStep(step) == Reverse(step.rollback)

RollbackStopsOnFailure(sr) == ~sr.success
\* _execute_rollback drops what _execute_step returns: no result ends its loop
RollbackStops(sr) == FALSE

NeverHalts(sr) == FALSE
\* if not step_result.get("success", False): ... break
HaltsOnFailure(sr) == ~sr.success

\* _execute_step returned sr: a rollback step's result is dropped, the
\* result of a step of the task is appended and decides what comes next
StepDone(step, sr) ==
    IF t_mode = "rollback"
      THEN /\ t_ri' = t_ri + 1
           /\ t_pc' = IF RollbackStops(sr) THEN "fin" ELSE "rb_next"
           /\ UNCHANGED <<t_result, t_si, t_mode, t_rb>>
      ELSE IF HaltsOnFailure(sr)
        THEN /\ t_result' = [t_result EXCEPT !.results = Append(@, sr)]
             /\ UNCHANGED t_si
             /\ IF step.has_rb
                  THEN /\ t_mode' = "rollback"
                       /\ t_rb' = RollbackOfFailedStep(step)
                       /\ t_ri' = 1
                       /\ t_pc' = "rb_next"
                  ELSE /\ t_pc' = "fin"
                       /\ UNCHANGED <<t_mode, t_rb, t_ri>>
        ELSE /\ t_result' = [t_result EXCEPT !.results = Append(@, sr),
                                             !.steps_completed = @ + 1]
             /\ t_si' = t_si + 1
             /\ t_pc' = "next"
             /\ UNCHANGED <<t_mode, t_rb, t_ri>>

\* for step in task.get("steps", []): the next step, or the end of the loop
TaskNext ==
    /\ t_pc = "next"
    /\ IF t_si <= Len(t_task.steps)
         THEN t_step' = t_task.steps[t_si] /\ t_pc' = "step"
         ELSE t_pc' = "fin" /\ UNCHANGED t_step
    /\ UNCHANGED <<t_task, t_vars, t_mode, t_si, t_rb, t_ri, t_items, t_li,
                   t_cmds, t_ci, t_res, t_result, t_log, t_calls>>
    /\ UNCHANGED notTask

\* for step in reversed(rollback_steps); after the last one, `break`
RollbackNext ==
    /\ t_pc = "rb_next"
    /\ IF t_ri <= Len(t_rb)
         THEN t_step' = t_rb[t_ri] /\ t_pc' = "step"
         ELSE t_pc' = "fin" /\ UNCHANGED t_step
    /\ UNCHANGED <<t_task, t_vars, t_mode, t_si, t_rb, t_ri, t_items, t_li,
                   t_cmds, t_ci, t_res, t_result, t_log, t_calls>>
    /\ UNCHANGED notTask

\* _execute_step: the condition, then the loop header
EnterStep ==
    /\ t_pc = "step"
    /\ IF t_step.cond.kind # "none" /\ CondRaises(t_step.cond)
         THEN TaskRaise /\ UNCHANGED <<t_items, t_li>>
         ELSE IF t_step.cond.kind # "none" /\ ~EvaluateCondition(t_step.cond, t_vars)
           THEN /\ StepDone(t_step, [success |-> TRUE, skipped |-> TRUE])
                /\ UNCHANGED <<t_items, t_li>>
           ELSE IF t_step.loop.kind # "none"
             THEN IF LoopRaises(t_step.loop)
                    THEN TaskRaise /\ UNCHANGED <<t_items, t_li>>
                    ELSE /\ t_items' = LoopItems(t_step.loop, t_vars)
                         /\ t_li' = 1
                         /\ t_pc' = "iter"
                         /\ UNCHANGED <<t_result, t_si, t_mode, t_rb, t_ri>>
             ELSE /\ t_pc' = "call"
                  /\ t_li' = 0
                  /\ UNCHANGED <<t_items, t_result, t_si, t_mode, t_rb, t_ri>>
    /\ UNCHANGED <<t_task, t_vars, t_step, t_cmds, t_ci, t_res, t_log, t_calls>>
    /\ UNCHANGED notTask

\* the item the loop binds in its iteration number i
LoopItemLast(items, i) == items[Len(items)]
LoopItem(items, i) == items[i]

\* for item in items: variables[item_var] = item
LoopIter ==
    /\ t_pc = "iter"
    /\ IF t_li <= Len(t_items)
         THEN /\ t_vars' = Bind(t_vars, t_step.loop.item_var, LoopItem(t_items, t_li))
              /\ t_pc' = "call"
              /\ UNCHANGED <<t_result, t_si, t_mode, t_rb, t_ri>>
         ELSE /\ StepDone(t_step, [success |-> TRUE, skipped |-> FALSE])
              /\ UNCHANGED t_vars
    /\ UNCHANGED <<t_task, t_step, t_items, t_li, t_cmds, t_ci, t_res,
                   t_log, t_calls>>
    /\ UNCHANGED notTask

\* response = input(...): the operator's answer, or EOFError when there is
\* no terminal to read from; without confirm nothing is asked
Answers(cf) == IF cf THEN {"yes", "no", "eof"} ELSE {"none"}
AlwaysProceeds(cf, answer) == TRUE
\* if response.lower() not in ['yes', 'y']: return results
Proceeds(cf, answer) == ~cf \/ answer = "yes"

\* _execute_commands_in_step: resolve the commands, call execute_commands,
\* which asks for the confirmation first
CallCommands ==
    /\ t_pc = "call"
    /\ t_cmds' = ResolveAll(t_step.commands, t_vars)
    /\ t_res' = <<>>
    /\ t_ci' = 1
    /\ \E answer \in Answers(t_step.confirm) :
         /\ t_calls' = Append(t_calls, [si |-> t_si, mode |-> t_mode, it |-> t_li,
                                        cmds |-> ResolveAll(t_step.commands, t_vars),
                                        vars |-> t_vars,
                                        confirm |-> t_step.confirm,
                                        answer |-> answer])
         /\ IF answer = "eof"
              THEN TaskRaise
              ELSE /\ t_pc' = IF Proceeds(t_step.confirm, answer) THEN "cmds" ELSE "ret"
                   /\ UNCHANGED <<t_result, t_si, t_mode, t_rb, t_ri>>
    /\ UNCHANGED <<t_task, t_vars, t_step, t_items, t_li, t_log>>
    /\ UNCHANGED notTask

BreaksOnAnyFailure(ok, soe) == ~ok
\* if not result["success"] and stop_on_error: break
BreaksLoop(ok, soe) == ~ok /\ soe

\* execute_commands: one command of the for loop is dispatched; its result
\* is a failure when execute_command caught an exception
Dispatch ==
    /\ t_pc = "cmds"
    /\ IF t_ci <= Len(t_cmds)
         THEN \E ok \in BOOLEAN :
                LET cmd == RewriteSave(t_cmds[t_ci])
                IN  /\ t_log' = Append(t_log, [cmd |-> cmd, ok |-> ok, mode |-> t_mode,
                                               si |-> t_si, it |-> t_li,
                                               call |-> Len(t_calls), vars |-> t_vars])
                    /\ t_res' = Append(t_res, [command |-> cmd, success |-> ok])
                    /\ IF BreaksLoop(ok, t_step.soe)
                         THEN t_pc' = "ret" /\ UNCHANGED t_ci
                         ELSE t_ci' = t_ci + 1 /\ UNCHANGED t_pc
         ELSE /\ t_pc' = "ret"
              /\ UNCHANGED <<t_log, t_res, t_ci>>
    /\ UNCHANGED <<t_task, t_vars, t_mode, t_si, t_rb, t_ri, t_step, t_items,
                   t_li, t_cmds, t_result, t_calls>>
    /\ UNCHANGED notTask

\* success = all(r.get("success", False) for r in results)
AllSucceeded(res) == \A i \in 1..Len(res) : res[i].success

\* execute_commands returned: the step, or the iteration of its loop, ends
EndCommands ==
    /\ t_pc = "ret"
    /\ IF t_step.loop.kind # "none" /\ AllSucceeded(t_res)
         THEN /\ t_li' = t_li + 1
              /\ t_pc' = "iter"
              /\ UNCHANGED <<t_result, t_si, t_mode, t_rb, t_ri>>
         ELSE /\ StepDone(t_step, [success |-> AllSucceeded(t_res), skipped |-> FALSE])
              /\ UNCHANGED t_li
    /\ UNCHANGED <<t_task, t_vars, t_step, t_items, t_cmds, t_ci, t_res,
                   t_log, t_calls>>
    /\ UNCHANGED notTask

AnyStepCompleted(res) == res.steps_completed > 0
\* result["steps_completed"] == result["steps_total"]
OverallSuccess(res) == res.steps_completed = res.steps_total

\* result["success"] = ...; return result
Finish ==
    /\ t_pc = "fin"
    /\ t_result' = [t_result EXCEPT !.success = OverallSuccess(t_result)]
    /\ t_pc' = "done"
    /\ UNCHANGED <<t_task, t_vars, t_mode, t_si, t_rb, t_ri, t_step, t_items,
                   t_li, t_cmds, t_ci, t_res, t_log, t_calls>>
    /\ UNCHANGED notTask

\* ------------------------------------------------------------ task inputs
NoCond == [kind |-> "none", args |-> <<>>, name |-> ""]
NoLoop == [kind |-> "none", items |-> <<>>, ref |-> <<>>, item_var |-> "item"]

\* a rollback step: one command; the second of a list asks for confirmation
RbStep(i, k) ==
    [commands |-> <<<<Lit("undo", 10 * i + k)>>>>, cond |-> NoCond, loop |-> NoLoop,
     has_rb |-> FALSE, rollback |-> <<>>, soe |-> TRUE, confirm |-> (k = 2)]

\* the steps a task is made of, for the step at position i
StepOf(shape, i) ==
    LET cmd(k) == <<Lit("cmd", 10 * i + k)>>
        base == [commands |-> <<cmd(1)>>, cond |-> NoCond, loop |-> NoLoop,
                 has_rb |-> FALSE, rollback |-> <<>>, soe |-> TRUE, confirm |-> FALSE]
    IN  CASE shape = "plain" ->
                [base EXCEPT !.commands = <<cmd(1), cmd(2)>>, !.has_rb = TRUE,
                             !.rollback = <<RbStep(i, 1), RbStep(i, 2)>>]
          [] shape = "loop" ->
                [base EXCEPT !.commands = <<<<Lit("vlan", i), Ph("item")>>>>,
                             !.loop = [kind |-> "list",
                                       items |-> [k \in 1..MaxItems |-> <<Lit("item", k)>>],
                                       ref |-> <<>>, item_var |-> "item"],
                             !.has_rb = TRUE, !.rollback = <<RbStep(i, 1)>>]
          [] shape = "cond" ->
                \* conditional and confirmed: a templated command at an odd
                \* position, a loop over two items at an even one
                LET c == [base EXCEPT !.cond = [kind |-> "equals",
                                                args |-> <<<<Ph("enable")>>, <<Lit("yes", 0)>>>>,
                                                name |-> ""],
                                      !.confirm = TRUE]
                IN  IF i % 2 = 1
                      THEN [c EXCEPT !.commands =
                                        <<<<Lit("show vlan", i), Ph("id"), Ph("missing")>>>>]
                      ELSE [c EXCEPT !.commands = <<<<Lit("port", i), Ph("item"), Ph("id")>>>>,
                                     !.loop = [kind |-> "list",
                                               items |-> <<<<Lit("item", 1)>>, <<Lit("item", 2)>>>>,
                                               ref |-> <<>>, item_var |-> "item"]]
          [] shape = "bad" ->
                \* malformed: a condition with one operand at an odd position,
                \* a loop that cannot be iterated at an even one
                IF i % 2 = 1
                  THEN [base EXCEPT !.cond = [kind |-> "equals",
                                              args |-> <<<<Ph("enable")>>>>, name |-> ""]]
                  ELSE [base EXCEPT !.loop = [NoLoop EXCEPT !.kind = "bad"]]

Shapes == {"plain", "loop", "cond", "bad"}

\* the variables of a task: `enable` decides the conditions, `id` is used by
\* the commands and is a plain value or a value that is itself a placeholder
VarSets ==
    {<<<<"enable", <<Lit("no", 0)>>>>, <<"id", <<Lit("100", 0)>>>>>>,
     <<<<"enable", <<Lit("yes", 0)>>>>, <<"id", <<Ph("enable")>>>>>>}

Tasks ==
    UNION {{[variables |-> vs, steps |-> [i \in 1..n |-> StepOf(sh[i], i)]] :
                vs \in VarSets, sh \in [1..n -> Shapes]} : n \in 1..MaxSteps}

\* steps of the other kinds a task file may hold, for the step at position i:
\* a loop over a {{var}} reference, `exists` conditions, a condition of a
\* kind _evaluate_condition does not know, and stop_on_error = false
StepKindOf(shape, i) ==
    LET cmd(k) == <<Lit("cmd", 10 * i + k)>>
        base == [commands |-> <<cmd(1)>>, cond |-> NoCond, loop |-> NoLoop,
                 has_rb |-> FALSE, rollback |-> <<>>, soe |-> TRUE, confirm |-> FALSE]
    IN  CASE shape = "ref" ->
                [base EXCEPT !.commands = <<<<Lit("vlan", i), Ph("item")>>>>,
                             !.loop = [kind |-> "ref", items |-> <<>>,
                                       ref |-> <<Ph("vlans")>>, item_var |-> "item"],
                             !.has_rb = TRUE, !.rollback = <<RbStep(i, 1)>>]
          [] shape = "exists" ->
                \* runs if the loop variable of an earlier step is bound
                [base EXCEPT !.commands = <<<<Lit("port", i), Ph("item")>>>>,
                             !.cond = [kind |-> "exists", args |-> <<>>, name |-> "item"]]
          [] shape = "note" ->
                [base EXCEPT !.commands = <<cmd(1), cmd(2)>>,
                             !.cond = [kind |-> "exists", args |-> <<>>, name |-> "note"]]
          [] shape = "equals" ->
                [base EXCEPT !.cond = [kind |-> "equals",
                                       args |-> <<<<Ph("enable")>>, <<Lit("yes", 0)>>>>,
                                       name |-> ""]]
          [] shape = "unknown" ->
                \* stop_on_error = false, and a condition of an unknown kind
                [base EXCEPT !.commands = <<cmd(1), cmd(2)>>, !.soe = FALSE,
                             !.cond = [kind |-> "not_equals",
                                       args |-> <<<<Ph("enable")>>, <<Lit("yes", 0)>>>>,
                                       name |-> ""],
                             !.has_rb = TRUE, !.rollback = <<RbStep(i, 1)>>]

StepKinds == {"ref", "exists", "note", "equals", "unknown"}

\* the variables of these tasks: `vlans` is a list of strings, a string, or
\* not bound; `note` is empty, or not bound
StepVarSets ==
    {<<<<"enable", <<Lit("yes", 0)>>>>, <<"note", <<>>>>,
       <<"vlans", <<Elem("10", 0), Elem("20", 0)>>>>>>,
     <<<<"enable", <<Lit("no", 0)>>>>, <<"note", <<Lit("x", 0)>>>>,
       <<"vlans", <<Lit("12", 0)>>>>>>,
     <<<<"enable", <<Lit("yes", 0)>>>>>>}

StepTasks ==
    UNION {{[variables |-> vs, steps |-> [i \in 1..n |-> StepKindOf(sh[i], i)]] :
                vs \in StepVarSets, sh \in [1..n -> StepKinds]} : n \in 1..MaxSteps}

\* no shell session is being driven
ShellIdle ==
    /\ commands = <<>> /\ timeout = 0 /\ stop_on_error = TRUE
    /\ save_config = FALSE /\ confirm = FALSE /\ response = "none" /\ saving = FALSE
    /\ idx = 0 /\ pc = "idle" /\ results = <<>>
    /\ result = [command |-> <<>>, success |-> FALSE, output |-> <<>>, error |-> "None"]
    /\ output = <<>> /\ now = 0 /\ start_time = 0 /\ last_data_time = 0
    /\ chunk = <<>>
    /\ sent = <<>> /\ avail = <<>> /\ closed = FALSE
    /\ dev_in = 1 /\ dev_last = "none" /\ dev_c = 0 /\ dev_j = 0
    /\ emitted = <<>> /\ rd_base = 0 /\ cmd_pos = 0 /\ keys_sent = 0

\* execute_task(task): the result dict, then the try block
TaskStart ==
    /\ t_vars = t_task.variables
    /\ t_pc = "next" /\ t_mode = "forward" /\ t_si = 1
    /\ t_rb = <<>> /\ t_ri = 0 /\ t_step = <<>> /\ t_items = <<>> /\ t_li = 0
    /\ t_cmds = <<>> /\ t_ci = 0 /\ t_res = <<>>
    /\ t_result = [success |-> FALSE, steps_completed |-> 0,
                   steps_total |-> Len(t_task.steps), results |-> <<>>,
                   error |-> "None"]
    /\ t_log = <<>> /\ t_calls = <<>>

TaskCall == t_task \in Tasks /\ TaskStart

InitTask ==
    /\ TaskCall
    /\ ShellIdle
    /\ BatchIdle
    /\ ResolveIdle
    /\ SessionIdle
    /\ ExperienceIdle
    /\ MainIdle
    /\ NormalizeIdle

TaskEngine ==
    \/ TaskNext \/ RollbackNext \/ EnterStep \/ LoopIter
    \/ CallCommands \/ Dispatch \/ EndCommands \/ Finish

NextTask == TaskEngine

SpecTask == InitTask /\ [][NextTask]_vars

\* execute_task on the tasks of the other step kinds
InitSteps ==
    /\ t_task \in StepTasks
    /\ TaskStart
    /\ ShellIdle
    /\ BatchIdle
    /\ ResolveIdle
    /\ SessionIdle
    /\ ExperienceIdle
    /\ MainIdle
    /\ NormalizeIdle

SpecSteps == InitSteps /\ [][NextTask]_vars

\* --------------------------------------------------------------------- main
\* the arguments are parsed; --task, --commands (with stop_on_error left at
\* its default) or neither
InitMain ==
    /\ m_path \in {"task", "commands", "none"}
    /\ m_pc = "connect" /\ m_connected = FALSE /\ m_exit = -1
    /\ IF m_path = "commands" THEN CommandsCall /\ stop_on_error = TRUE ELSE ShellIdle
    /\ IF m_path = "task" THEN TaskCall ELSE TaskIdle
    /\ BatchIdle
    /\ ResolveIdle
    /\ SessionIdle
    /\ ExperienceIdle
    /\ NormalizeIdle

\* if not executor.connect(...): sys.exit(1); then the task file is loaded,
\* which may raise, or the else branch of no task and no commands exits
MainConnect ==
    /\ m_pc = "connect"
    /\ \E ok \in BOOLEAN, loaded \in BOOLEAN :
          /\ m_connected' = ok
          /\ IF ok /\ m_path # "none" /\ (m_path = "task" => loaded)
               THEN m_pc' = "run" /\ m_exit' = m_exit
               ELSE m_pc' = "exit" /\ m_exit' = 1
    /\ UNCHANGED <<m_path, shellVars, taskVars>>
    /\ UNCHANGED notMain

\* result = executor.execute_task(task)
MainTask == m_pc = "run" /\ m_path = "task" /\ NextTask

\* results = executor.execute_commands(args.commands, ...)
MainCommands == m_pc = "run" /\ m_path = "commands" /\ NextCommands

\* the task path exits with 1 if not result["success"]; the commands path
\* prints the results; an exception out of either exits with 1
MainExit ==
    /\ m_pc = "run"
    /\ \/ /\ m_path = "task" /\ t_pc = "done"
          /\ m_exit' = IF t_result.success THEN 0 ELSE 1
       \/ /\ m_path = "commands" /\ pc = "ec_done"
          /\ m_exit' = 0
       \/ /\ m_path = "commands" /\ pc = "ec_raised"
          /\ m_exit' = 1
    /\ m_pc' = "exit"
    /\ UNCHANGED <<m_path, m_connected, shellVars, taskVars>>
    /\ UNCHANGED notMain

NextMain == MainConnect \/ MainTask \/ MainCommands \/ MainExit

SpecMain == InitMain /\ [][NextMain]_vars

\* ------------------------------------------------------ _resolve_variables
\* the texts and the dicts _resolve_variables is followed on
Atoms == {Lit("show vlan", 0), Ph("id"), Ph("missing"), Ph("x")}
Templates == UNION {[1..n -> Atoms] : n \in 1..MaxAtoms}
Values == {<<Lit("100", 0)>>, <<Ph("x")>>, <<Ph("id")>>, <<>>}
Keys == {"id", "x"}
Dicts ==
    {<<>>}
    \cup {<<<<k, v>>>> : k \in Keys, v \in Values}
    \cup {d \in {<<<<k1, v1>>, <<k2, v2>>>> :
                    k1 \in Keys, k2 \in Keys, v1 \in Values, v2 \in Values} :
                d[1][1] # d[2][1]}

InitResolve ==
    /\ r_in \in Templates
    /\ r_vars \in Dicts
    /\ r_text = r_in
    /\ r_i = 1
    /\ r_pc = "loop"
    /\ ShellIdle
    /\ TaskIdle
    /\ BatchIdle
    /\ SessionIdle
    /\ ExperienceIdle
    /\ MainIdle
    /\ NormalizeIdle

\* for key, value in variables.items(): text = text.replace(...)
ResolveStep ==
    /\ r_pc = "loop"
    /\ r_i <= Len(r_vars)
    /\ r_text' = Replace(r_text, r_vars[r_i][1], Str(r_vars[r_i][2]))
    /\ r_i' = r_i + 1
    /\ UNCHANGED <<r_in, r_vars, r_pc>>
    /\ UNCHANGED notResolve

\* return text
ResolveReturn ==
    /\ r_pc = "loop"
    /\ r_i > Len(r_vars)
    /\ r_pc' = "done"
    /\ UNCHANGED <<r_in, r_vars, r_text, r_i>>
    /\ UNCHANGED notResolve

NextResolve == ResolveStep \/ ResolveReturn

SpecResolve == InitResolve /\ [][NextResolve]_vars

\* ------------------------------------------------------------ the session
\* device_type arguments of connect; "None" is the default None
DeviceTypes == {"None", "H3C", "hp", "Huawei", "cisco", "cisco_nxos", "ruijie",
                "HP_Comware", "juniper"}
LowerIdentity(dt) == dt
\* device_type.lower()
Lower(dt) ==
    CASE dt = "H3C" -> "h3c"
      [] dt = "Huawei" -> "huawei"
      [] dt = "HUAWEI" -> "huawei"
      [] dt = "HP_Comware" -> "hp_comware"
      [] dt = "Cisco" -> "cisco"
      [] dt = "Ruijie" -> "ruijie"
      [] dt = "Juniper" -> "juniper"
      [] OTHER -> dt
\* DEVICE_TYPE_MAP.get(dt_lower, dt_lower)
DeviceTypeMap(dt) ==
    CASE dt = "h3c" -> "hp_comware"
      [] dt = "hp" -> "hp_comware"
      [] dt = "huawei" -> "huawei"
      [] dt = "cisco" -> "cisco_ios"
      [] dt = "cisco_ios" -> "cisco_ios"
      [] dt = "cisco_nxos" -> "cisco_nxos"
      [] dt = "ruijie" -> "ruijie_os"
      [] OTHER -> dt
\* if not device_type: return 'cisco_ios'
Missing(dt) == dt \in {"None", ""}
NormalizeDeviceType(dt) == IF Missing(dt) THEN "cisco_ios" ELSE DeviceTypeMap(Lower(dt))
INVOKE_SHELL_DEVICES == {"h3c", "hp", "hp_comware", "huawei"}
ModeOf(dt) == IF NormalizeDeviceType(dt) \in INVOKE_SHELL_DEVICES THEN "shell" ELSE "exec"

\* connect(host, username, password, device_type): a new SSHClient is stored
\* in self.connection, then connected; for a shell device the channel is
\* stored in self.shell; any exception returns False
Connect ==
    /\ s_count < MaxConnects
    /\ \E dt \in DeviceTypes, connected \in BOOLEAN, invoked \in BOOLEAN :
          LET client == s_count + 1
          IN  /\ s_count' = client
              /\ s_connection' = client
              /\ s_live' = IF connected THEN s_live \cup {client} ELSE s_live
              /\ IF connected /\ ModeOf(dt) = "shell" /\ invoked
                   THEN /\ s_shell' = client
                        /\ s_channels' = s_channels \cup {client}
                   ELSE UNCHANGED <<s_shell, s_channels>>
              /\ s_selected' =
                    IF connected /\ (ModeOf(dt) = "exec" \/ invoked)
                      THEN [client |-> client, mode |-> ModeOf(dt)]
                      ELSE NoSelection
    /\ UNCHANGED s_log
    /\ UNCHANGED notSession

\* execute_command(command): use_shell = self.shell is not None; the command
\* goes to self.shell if there is one, else to self.connection.exec_command
ExecuteCommand ==
    /\ Len(s_log) < MaxDispatches
    /\ s_shell # 0 \/ s_connection # 0
    /\ IF s_shell # 0
         THEN s_log' = Append(s_log, [mode |-> "shell", client |-> s_shell,
                                      delivered |-> s_shell \in s_channels,
                                      selected |-> s_selected])
         ELSE IF s_connection # 0
           THEN s_log' = Append(s_log, [mode |-> "exec", client |-> s_connection,
                                        delivered |-> s_connection \in s_live,
                                        selected |-> s_selected])
           ELSE UNCHANGED s_log
    /\ UNCHANGED <<s_connection, s_shell, s_live, s_channels, s_selected, s_count>>
    /\ UNCHANGED notSession

\* disconnect(): closes self.shell and self.connection, and keeps both fields
DisconnectSession ==
    /\ s_connection # 0
    /\ s_channels' = s_channels \ {s_shell}
    /\ s_live' = s_live \ {s_connection}
    /\ s_selected' = NoSelection
    /\ UNCHANGED <<s_connection, s_shell, s_count, s_log>>
    /\ UNCHANGED notSession

InitSessionCalls ==
    /\ SessionIdle
    /\ ExperienceIdle
    /\ MainIdle
    /\ NormalizeIdle
    /\ ShellIdle
    /\ TaskIdle
    /\ BatchIdle
    /\ ResolveIdle

NextSession == Connect \/ ExecuteCommand \/ DisconnectSession

SpecSession == InitSessionCalls /\ [][NextSession]_vars

\* ------------------------------------------------------ the experience log
\* A worker's position: "new" before its ExperienceManager is constructed,
\* "idle" between calls, then inside add_experience "id" (before new_id is
\* computed), "file" (before the experience file is written), "append"
\* (before the index entry is appended) and "save" (before save_index).
Writers == 1..Len(x_pc)

\* __init__ / load_index: the index is read from index.json; an object that
\* another worker has constructed already is not loaded again
LoadIndex ==
    /\ \E w \in Writers :
          /\ x_pc[w] = "new"
          /\ x_pc' = [x_pc EXCEPT ![w] = "idle"]
          /\ x_index' = IF \E v \in Writers : v # w /\ x_manager[v] = x_manager[w]
                                                /\ x_pc[v] # "new"
                          THEN x_index
                          ELSE [x_index EXCEPT ![x_manager[w]] = x_disk]
    /\ UNCHANGED <<x_manager, x_disk, x_files, x_id, x_calls>>
    /\ UNCHANGED notExperience

\* add_experience is called
BeginAdd ==
    /\ \E w \in Writers :
          /\ x_pc[w] = "idle"
          /\ x_calls[w] < MaxAdds
          /\ x_calls' = [x_calls EXCEPT ![w] = @ + 1]
          /\ x_pc' = [x_pc EXCEPT ![w] = "id"]
    /\ UNCHANGED <<x_manager, x_index, x_disk, x_files, x_id>>
    /\ UNCHANGED notExperience

\* new_id = len(existing_ids) + 1
NewId ==
    /\ \E w \in Writers :
          /\ x_pc[w] = "id"
          /\ x_id' = [x_id EXCEPT ![w] = Len(x_index[x_manager[w]]) + 1]
          /\ x_pc' = [x_pc EXCEPT ![w] = "file"]
    /\ UNCHANGED <<x_manager, x_index, x_disk, x_files, x_calls>>
    /\ UNCHANGED notExperience

\* with open(exp_file, 'w'): the file named after the id is written, and
\* replaces a file of that name
WriteFile ==
    /\ \E w \in Writers :
          /\ x_pc[w] = "file"
          /\ x_files' = {f \in x_files : f.id # x_id[w]}
                            \cup {[id |-> x_id[w], call |-> <<w, x_calls[w]>>]}
          /\ x_pc' = [x_pc EXCEPT ![w] = "append"]
    /\ UNCHANGED <<x_manager, x_index, x_disk, x_id, x_calls>>
    /\ UNCHANGED notExperience

\* self.index["experiences"].append(...)
AppendIndex ==
    /\ \E w \in Writers :
          /\ x_pc[w] = "append"
          /\ x_index' = [x_index EXCEPT ![x_manager[w]] =
                            Append(@, [id |-> x_id[w], call |-> <<w, x_calls[w]>>])]
          /\ x_pc' = [x_pc EXCEPT ![w] = "save"]
    /\ UNCHANGED <<x_manager, x_disk, x_files, x_id, x_calls>>
    /\ UNCHANGED notExperience

\* save_index: index.json is rewritten from self.index
SaveIndex ==
    /\ \E w \in Writers :
          /\ x_pc[w] = "save"
          /\ x_disk' = x_index[x_manager[w]]
          /\ x_pc' = [x_pc EXCEPT ![w] = "idle"]
    /\ UNCHANGED <<x_manager, x_index, x_files, x_id, x_calls>>
    /\ UNCHANGED notExperience

\* the workers either share one ExperienceManager or have one each, as every
\* UniversalNetworkExecutor constructs its own
InitExperience ==
    /\ \E n \in 1..MaxWriters, shared \in BOOLEAN :
          /\ x_manager = [w \in 1..n |-> IF shared THEN 1 ELSE w]
          /\ x_index = [i \in 1..n |-> <<>>]
          /\ x_pc = [w \in 1..n |-> "new"]
          /\ x_id = [w \in 1..n |-> 0]
          /\ x_calls = [w \in 1..n |-> 0]
    /\ x_disk = <<>>
    /\ x_files = {}
    /\ ShellIdle
    /\ TaskIdle
    /\ BatchIdle
    /\ ResolveIdle
    /\ SessionIdle
    /\ MainIdle
    /\ NormalizeIdle

NextExperience ==
    \/ LoadIndex \/ BeginAdd \/ NewId \/ WriteFile \/ AppendIndex \/ SaveIndex

SpecExperience == InitExperience /\ [][NextExperience]_vars

\* -------------------------------------------------- _normalize_device_type
\* the device_type strings looked up: those of connect, their spellings in
\* other letter case, and the empty string
Aliases == DeviceTypes \cup {"", "h3c", "huawei", "HUAWEI", "hp_comware", "Cisco",
                             "cisco_ios", "Ruijie", "Juniper"}

InitNormalize ==
    /\ n_log = <<>>
    /\ ShellIdle
    /\ TaskIdle
    /\ BatchIdle
    /\ ResolveIdle
    /\ SessionIdle
    /\ ExperienceIdle
    /\ MainIdle

\* normalized_type = self._normalize_device_type(device_type), and the mode
\* connect derives from it
Normalize ==
    /\ Len(n_log) < MaxLookups
    /\ \E dt \in Aliases :
          n_log' = Append(n_log, [arg |-> dt, tag |-> NormalizeDeviceType(dt),
                                  mode |-> ModeOf(dt)])
    /\ UNCHANGED notNormalize

NextNormalize == Normalize

SpecNormalize == InitNormalize /\ [][NextNormalize]_vars

\* -------------------------------------------------------------- the batch
\* A device's call of execute_on_device is at one of these positions:
\*   "queued"    submitted, not started
\*   "connect"   the result dict is built; before connect_device
\*   "op"        connected; before operation(connection)
\*   "close"     the operation returned; before connection.disconnect()
\*   "finished"  returned (its thread is free); its result not yet appended
\*               to self.results
\*   "collected" its result is in self.results
Devs == 1..Len(b_devices)
Running == {d \in Devs : b_job[d] \in {"connect", "op", "close"}}

\* the result dict of execute_on_device; dev is history, the index of the
\* device the record was made for
NewResult(d) == [host |-> b_devices[d], status |-> "unknown", dev |-> d]

\* which device may start: the worker pool hands out the submitted calls in
\* submission order to at most max_workers threads; the sequential loop
\* starts a device when the result of the one before it is appended
MayStartAnyQueued(d) ==
    /\ b_job[d] = "queued"
    /\ Cardinality(Running) < b_workers
MayStart(d) ==
    /\ b_job[d] = "queued"
    /\ \A e \in 1..(d - 1) : b_job[e] # "queued"
    /\ IF b_parallel
         THEN Cardinality(Running) < b_workers
         ELSE \A e \in 1..(d - 1) : b_job[e] = "collected"

StartDevice ==
    /\ b_pc = "run"
    /\ \E d \in Devs :
          /\ MayStart(d)
          /\ b_job' = [b_job EXCEPT ![d] = "connect"]
          /\ b_result' = [b_result EXCEPT ![d] = NewResult(d)]
    /\ UNCHANGED <<b_summary, b_devices, b_parallel, b_workers, b_pc, b_results, b_open, b_fate>>
    /\ UNCHANGED notBatch

\* connect_device: the connection, or None when ConnectHandler raises and
\* execute_on_device returns the failed result
ConnectDevice ==
    /\ b_pc = "run"
    /\ \E d \in Devs, connected \in BOOLEAN :
          /\ b_job[d] = "connect"
          /\ IF connected
               THEN /\ b_open' = b_open \cup {d}
                    /\ b_job' = [b_job EXCEPT ![d] = "op"]
                    /\ UNCHANGED <<b_result, b_fate>>
               ELSE /\ b_result' = [b_result EXCEPT ![d].status = "failed"]
                    /\ b_job' = [b_job EXCEPT ![d] = "finished"]
                    /\ b_fate' = [b_fate EXCEPT ![d] = "connect_failed"]
                    /\ UNCHANGED b_open
    /\ UNCHANGED <<b_summary, b_devices, b_parallel, b_workers, b_pc, b_results>>
    /\ UNCHANGED notBatch

PropagateException(d) ==
    /\ b_pc' = "done"
    /\ b_job' = [b_job EXCEPT ![d] = "finished"]
    /\ UNCHANGED b_result
\* the except clause of execute_on_device, reached from operation(connection),
\* and return result
CatchException(d) ==
    /\ b_result' = [b_result EXCEPT ![d].status = "error"]
    /\ b_job' = [b_job EXCEPT ![d] = "finished"]
    /\ UNCHANGED b_pc

\* output = operation(connection)
Operate ==
    /\ b_pc = "run"
    /\ \E d \in Devs, raised \in BOOLEAN :
          /\ b_job[d] = "op"
          /\ IF raised
               THEN /\ CatchException(d)
                    /\ b_fate' = [b_fate EXCEPT ![d] = "raised"]
               ELSE /\ b_job' = [b_job EXCEPT ![d] = "close"]
                    /\ b_fate' = [b_fate EXCEPT ![d] = "returned"]
                    /\ UNCHANGED <<b_result, b_pc>>
    /\ UNCHANGED <<b_summary, b_devices, b_parallel, b_workers, b_results, b_open>>
    /\ UNCHANGED notBatch

\* output = operation(connection) with command_execute_operation(commands):
\* CommandExecutor.execute_command catches what send_command raises and
\* returns the error message as the output of that command, so the
\* operation returns its dict of outputs whatever happened to its commands
OperateCommands ==
    /\ b_pc = "run"
    /\ \E d \in Devs, raises \in SUBSET (1..Len(CmdPool)) :
          /\ b_job[d] = "op"
          /\ b_job' = [b_job EXCEPT ![d] = "close"]
          /\ b_fate' = [b_fate EXCEPT ![d] = IF raises = {} THEN "returned"
                                              ELSE "command_failed"]
    /\ UNCHANGED <<b_summary, b_devices, b_parallel, b_workers, b_results, b_open,
                   b_result, b_pc>>
    /\ UNCHANGED notBatch

\* connection.disconnect(), the success fields of the result, return result
Disconnect ==
    /\ b_pc = "run"
    /\ \E d \in Devs :
          /\ b_job[d] = "close"
          /\ b_open' = b_open \ {d}
          /\ b_result' = [b_result EXCEPT ![d].status = "success"]
          /\ b_job' = [b_job EXCEPT ![d] = "finished"]
    /\ UNCHANGED <<b_summary, b_devices, b_parallel, b_workers, b_pc, b_results, b_fate>>
    /\ UNCHANGED notBatch

\* self.results.append(result)
AppendUnlessHostSeen(rs, r) ==
    IF \E i \in 1..Len(rs) : rs[i].host = r.host THEN rs ELSE Append(rs, r)
AppendResult(rs, r) == Append(rs, r)

\* the body of `for future in as_completed(futures)`, and the second half of
\* the body of the sequential loop
CollectResult ==
    /\ b_pc = "run"
    /\ \E d \in Devs :
          /\ b_job[d] = "finished"
          /\ b_results' = AppendResult(b_results, b_result[d])
          /\ b_job' = [b_job EXCEPT ![d] = "collected"]
    /\ UNCHANGED <<b_summary, b_devices, b_parallel, b_workers, b_pc, b_result, b_open, b_fate>>
    /\ UNCHANGED notBatch

\* A connection that execute_on_device did not disconnect is unreachable once
\* the call has returned; when the interpreter reclaims it, and whether that
\* closes the session, is not decided by this code.
ReclaimSession ==
    /\ \E d \in b_open :
          /\ b_job[d] \in {"finished", "collected"}
          /\ b_open' = b_open \ {d}
    /\ UNCHANGED <<b_summary, b_devices, b_parallel, b_workers, b_pc, b_job, b_result,
                   b_results, b_fate>>
    /\ UNCHANGED notBatch

\* sum(1 for r in self.results if r['status'] ...)
CountStatus(rs, statuses) == Cardinality({i \in 1..Len(rs) : rs[i].status \in statuses})
CountFailedOnly(rs) == CountStatus(rs, {"failed"})
\* failed = sum(1 for r in self.results if r['status'] in ['failed', 'error'])
CountFailed(rs) == CountStatus(rs, {"failed", "error"})

\* _display_summary and `return self.results`
BatchReturn ==
    /\ b_pc = "run"
    /\ \A d \in Devs : b_job[d] = "collected"
    /\ b_summary' = [total |-> Len(b_results),
                     success |-> CountStatus(b_results, {"success"}),
                     failed |-> CountFailed(b_results)]
    /\ b_pc' = "done"
    /\ UNCHANGED <<b_devices, b_parallel, b_workers, b_job, b_result, b_results,
                   b_open, b_fate>>
    /\ UNCHANGED notBatch

Hosts == {"sw1", "sw2"}
\* the inventories of up to MaxDevices devices; the first is sw1, the host
\* names being interchangeable
DeviceLists ==
    UNION {{ds \in [1..n -> Hosts] : ds[1] = "sw1"} : n \in 1..MaxDevices}

\* batch_execute(operation, parallel, max_workers) on a loaded inventory
InitBatch ==
    /\ b_devices \in DeviceLists
    /\ b_parallel \in BOOLEAN
    /\ b_workers \in 1..MaxWorkers
    /\ b_pc = "run"
    /\ b_job = [d \in 1..Len(b_devices) |-> "queued"]
    /\ b_result = [d \in 1..Len(b_devices) |-> NewResult(d)]
    /\ b_results = <<>>
    /\ b_open = {}
    /\ b_fate = [d \in 1..Len(b_devices) |-> "none"]
    /\ b_summary = NoSummary
    /\ ShellIdle
    /\ TaskIdle
    /\ ResolveIdle
    /\ SessionIdle
    /\ ExperienceIdle
    /\ MainIdle
    /\ NormalizeIdle

NextBatch ==
    \/ StartDevice \/ ConnectDevice \/ Operate \/ Disconnect
    \/ CollectResult \/ ReclaimSession \/ BatchReturn

SpecBatch == InitBatch /\ [][NextBatch]_vars

\* batch_execute(command_execute_operation(commands), ...)
NextBatchCommands ==
    \/ StartDevice \/ ConnectDevice \/ OperateCommands \/ Disconnect
    \/ CollectResult \/ BatchReturn

SpecBatchCommands == InitBatch /\ [][NextBatchCommands]_vars

\* ------------------------------------------------------ claims: the framer
NotKey(x) == ~IsKey(x)
CmdsSent == SelectSeq(sent, NotKey)
InFramer == pc \in {"fr_loop", "fr_grace"}
Returned == pc = "ec_ret" /\ result.success
\* the answer of the device to the current command, as far as it is emitted
OfCurrent(b) == b[2] = cmd_pos
Answer == SelectSeq(emitted, OfCurrent)
AnswerComplete == \E i \in 1..Len(emitted) : emitted[i] = <<"prompt", cmd_pos, 0>>

\* C1: _handle_pagination terminates for every sequence of byte arrivals:
\* at the head of the loop with the hard timeout elapsed the next step of
\* the framer returns the accumulated buffer (no further iteration), and
\* every call that is running ends.
C1_FramerTerminates ==
    /\ [][(/\ pc = "fr_loop" /\ now - start_time >= timeout
            /\ <<pc, now, output>>' # <<pc, now, output>>)
            => (/\ pc' = "ec_ret" /\ result'.success
                /\ result'.output = output /\ output' = output)]_vars
    /\ (InFramer ~> pc = "ec_ret")

\* the framer returned at the hard timeout although no byte ever arrived
C1_Witness ==
    /\ Returned
    /\ now - start_time >= timeout
    /\ emitted = <<>> /\ result.output = <<>>

\* C2: when the framer returns, the number of continuation keys it sent
\* equals the number of pagination tokens in the text it received.
C2_OneKeyPerToken ==
    Returned => keys_sent = CountTokens(result.output)

\* C3 as stated: for an answer of paginated data that ends with the prompt,
\* all of it emitted and each token answered with its key, the text the
\* framer returns is the whole answer: nothing is left unread at completion.
C3_ReturnsWholeAnswer ==
    [][(/\ InFramer /\ AnswerComplete /\ keys_sent = CountTokens(Answer)
        /\ pc' = "ec_ret" /\ result'.success)
        => result'.output = Answer]_vars

\* C3 amended: the returned text is exactly the bytes the framer read, in
\* stream order: the part of the stream between the start of the call and the
\* bytes still unread; and if the final prompt is in it, the whole answer is.
C3_ReturnsWhatItRead ==
    Returned =>
        /\ rd_base + Len(result.output) + Len(avail) = Len(emitted)
        /\ result.output = SubSeq(emitted, rd_base + 1, rd_base + Len(result.output))
        /\ (\E i \in 1..Len(result.output) : result.output[i] = <<"prompt", cmd_pos, 0>>)
              => SelectSeq(result.output, OfCurrent) = Answer

\* a paginated answer with its final prompt was returned whole
C3_Witness ==
    /\ Returned
    /\ CountTokens(result.output) >= 1
    /\ AnswerComplete
    /\ result.output = Answer

\* C4: the commands written to the session are the commands of the list, in
\* list order, and a command is written only when the framer of every
\* command written before it has returned (at most one in flight).
C4_InOrderOneInFlight ==
    /\ Len(CmdsSent) <= Len(commands)
    /\ \A i \in 1..Len(CmdsSent) : CmdsSent[i] = RewriteSave(commands[i])
    /\ Len(CmdsSent) <= Len(results) + 1
    /\ (Len(CmdsSent) = Len(results) + 1) => (InFramer \/ pc = "ec_ret")

\* the second command is on the wire, the first one has its result
C4_Witness ==
    /\ Len(CmdsSent) = 2
    /\ Len(results) = 1 /\ results[1].success
    /\ InFramer

\* -------------------------------------------------- claims: the task engine
TaskDone == t_pc = "done"
RollbackTexts(step) ==
    UNION {{step.rollback[r].commands[c] : c \in 1..Len(step.rollback[r].commands)} :
              r \in 1..Len(step.rollback)}
Malformed(task) ==
    \E i \in 1..Len(task.steps) :
        CondRaises(task.steps[i].cond) \/ LoopRaises(task.steps[i].loop)

\* C5: when S1 and S2 completed and S3 failed, execute_task runs the
\* rollback of S2 and then the rollback of S1.
C5_RollbackCompletedSteps ==
    (/\ TaskDone /\ t_result.error = "None"
     /\ Len(t_result.results) = 3
     /\ t_result.results[1].success /\ ~t_result.results[1].skipped
     /\ t_result.results[2].success /\ ~t_result.results[2].skipped
     /\ ~t_result.results[3].success
     /\ t_task.steps[1].has_rb /\ t_task.steps[2].has_rb)
    => \E i, j \in 1..Len(t_log) :
          /\ i < j
          /\ t_log[i].mode = "rollback" /\ t_log[i].cmd \in RollbackTexts(t_task.steps[2])
          /\ t_log[j].mode = "rollback" /\ t_log[j].cmd \in RollbackTexts(t_task.steps[1])

\* what a loop step over a literal list dispatches in its first m iterations
RECURSIVE LoopExpected(_, _, _)
LoopExpected(task, step, m) ==
    IF m = 0 THEN <<>>
    ELSE LoopExpected(task, step, m - 1)
            \o [c \in 1..Len(step.commands) |->
                  [cmd |-> RewriteSave(ResolveVariables(step.commands[c],
                              Bind(task.variables, step.loop.item_var, step.loop.items[m]))),
                   it |-> m]]

ForwardLog(si) == SelectSeq(t_log, LAMBDA e : e.mode = "forward" /\ e.si = si)
ForwardCalls(si) == SelectSeq(t_calls, LAMBDA c : c.mode = "forward" /\ c.si = si)
IsListLoop(step) == step.loop.kind = "list" /\ ~step.confirm

\* C6: a loop step over a literal list runs its commands once per item, in
\* list order, resolved with the loop variable bound to that item; after an
\* iteration with a failed command no later iteration runs and the step is
\* failed; the step succeeds exactly when every iteration ran without failure.
C6_LoopInOrder ==
    \A si \in 1..Len(t_task.steps) :
        LET step == t_task.steps[si]
            log == ForwardLog(si)
            calls == ForwardCalls(si)
            want == LoopExpected(t_task, step, Len(step.loop.items))
        IN  IsListLoop(step) =>
              /\ Len(log) <= Len(want)
              /\ \A j \in 1..Len(log) :
                    log[j].cmd = want[j].cmd /\ log[j].it = want[j].it
              /\ \A k \in 1..Len(calls) :
                    /\ calls[k].it = k
                    /\ Get(calls[k].vars, step.loop.item_var) = step.loop.items[k]
              /\ \A j \in 1..Len(log) :
                    ~log[j].ok => \A l \in j..Len(log) : log[l].it = log[j].it
              /\ Len(t_result.results) >= si =>
                    (t_result.results[si].success
                        <=> (Len(log) = Len(want) /\ \A j \in 1..Len(log) : log[j].ok))

\* a loop over three items ran to its end, one dispatch per item
C6_Witness ==
    \E si \in 1..Len(t_task.steps) :
        /\ IsListLoop(t_task.steps[si])
        /\ Len(t_task.steps[si].loop.items) >= 3
        /\ Len(t_result.results) >= si /\ t_result.results[si].success
        /\ Len(ForwardLog(si)) = Len(t_task.steps[si].loop.items)

\* C10: a task with a structurally malformed step has no command of any
\* step dispatched to the device.
C10_ValidatedBeforeExecution == Malformed(t_task) => t_log = <<>>

\* --------------------------------------------------------- claims: the batch
BatchDone == b_pc = "done" /\ Len(b_devices) > 0
HostCount(hs, h) == Cardinality({i \in 1..Len(hs) : hs[i] = h})
ResultHosts == [i \in 1..Len(b_results) |-> b_results[i].host]
StatusOf(fate) ==
    CASE fate = "connect_failed" -> "failed"
      [] fate = "raised"         -> "error"
      [] fate = "returned"       -> "success"
      [] OTHER                   -> "unknown"

\* C7: when batch_execute has returned on a non-empty device list, the result
\* list has one record per device: as many results as devices, and the hosts
\* of the results are the hosts of the devices, as a multiset.
C7_OneResultPerDevice ==
    BatchDone =>
        /\ Len(b_results) = Len(b_devices)
        /\ \A h \in Hosts : HostCount(ResultHosts, h) = HostCount(b_devices, h)

\* a parallel batch over three devices, two of them the same host, one of each
\* fate, collected out of input order
C7_Witness ==
    /\ BatchDone /\ b_parallel /\ Len(b_devices) = 3
    /\ b_devices[1] = b_devices[3]
    /\ {b_results[i].status : i \in 1..Len(b_results)} = {"failed", "error", "success"}
    /\ b_results[1].dev = 2

\* C8: in a parallel batch the number of sessions opened and not yet closed
\* is never more than max_workers.
C8_AtMostKSessions == b_parallel => Cardinality(b_open) <= b_workers

\* C9: the failure of one device is recorded in that device's own result and
\* nowhere else: every result carries the status of what happened to its own
\* device, no device has two results, and a batch that has returned has
\* attempted every device and recorded its result.
C9_FailureIsolation ==
    /\ \A i \in 1..Len(b_results) :
          /\ b_results[i].host = b_devices[b_results[i].dev]
          /\ b_results[i].status = StatusOf(b_fate[b_results[i].dev])
          /\ b_results[i].status \in {"failed", "error", "success"}
    /\ \A i, j \in 1..Len(b_results) :
          b_results[i].dev = b_results[j].dev => i = j
    /\ BatchDone =>
          \A d \in Devs :
              /\ b_fate[d] # "none"
              /\ \E i \in 1..Len(b_results) : b_results[i].dev = d

\* a connection failure and a raised operation, each followed by a device
\* that succeeds
C9_Witness ==
    /\ BatchDone /\ Len(b_devices) = 3
    /\ b_fate = <<"connect_failed", "raised", "returned">>
    /\ \E i \in 1..Len(b_results) :
          b_results[i].dev = 3 /\ b_results[i].status = "success"

\* ------------------------------------------------ claims: _resolve_variables
Resolved == r_pc = "done"
RECURSIVE SubstituteAll(_, _)
SubstituteAll(text, d) ==
    IF text = <<>> THEN <<>>
    ELSE (IF Head(text)[1] = "ph" /\ Has(d, Head(text)[2])
            THEN Get(d, Head(text)[2]) ELSE <<Head(text)>>)
            \o SubstituteAll(Tail(text), d)
Occurrences(text, a) == Cardinality({i \in 1..Len(text) : text[i] = a})
NoBoundPlaceholderInValues(d) ==
    \A i \in 1..Len(d) : \A j \in 1..Len(d[i][2]) :
        ~(d[i][2][j][1] = "ph" /\ Has(d, d[i][2][j][2]))

BoundPlaceholderIn(text, d) ==
    \E j \in 1..Len(text) : text[j][1] = "ph" /\ Has(d, text[j][2])

\* C12: no command a task step sends to the device contains the placeholder
\* of a name that is bound in the variables at the time it is sent.
C12_NoBoundPlaceholderSent ==
    \A i \in 1..Len(t_log) : ~BoundPlaceholderIn(t_log[i].cmd, t_log[i].vars)

Completed == [success |-> TRUE, skipped |-> FALSE]
Skipped == [success |-> TRUE, skipped |-> TRUE]
\* the step has an `equals` condition whose two sides differ under the
\* variables of the task
ConditionIsFalse(step) ==
    /\ step.cond.kind = "equals" /\ Len(step.cond.args) = 2
    /\ SubstituteAll(step.cond.args[1], t_task.variables)
          # SubstituteAll(step.cond.args[2], t_task.variables)

\* C13: a step whose condition is false has none of its commands dispatched
\* and is recorded as skipped and successful; no other step is recorded as
\* skipped; a task of an unconditional step that completes followed by a step
\* whose condition is false ends with success and the outcomes
\* [Completed, Skipped].
C13_FalseConditionSkips ==
    /\ \A si \in 1..Len(t_task.steps) :
          /\ ConditionIsFalse(t_task.steps[si]) => ForwardLog(si) = <<>>
          /\ si <= Len(t_result.results) =>
                IF ConditionIsFalse(t_task.steps[si])
                  THEN t_result.results[si] = Skipped
                  ELSE ~t_result.results[si].skipped
    /\ (/\ TaskDone /\ Len(t_task.steps) = 2
        /\ t_task.steps[1].cond.kind = "none"
        /\ ConditionIsFalse(t_task.steps[2])
        /\ t_result.error = "None"
        /\ \A i \in 1..Len(t_log) : t_log[i].ok)
       => (t_result.success /\ t_result.results = <<Completed, Skipped>>)

\* step 1 ran its commands, step 2 was skipped, the task succeeded
C13_Witness ==
    /\ TaskDone /\ Len(t_task.steps) = 2
    /\ ConditionIsFalse(t_task.steps[2])
    /\ t_log # <<>> /\ ForwardLog(2) = <<>>
    /\ t_result.success /\ t_result.results = <<Completed, Skipped>>

\* C14: execute_task returns success exactly when no exception was raised,
\* every step of the task has an outcome and every outcome is successful
\* (completed or skipped); a failed command of a step, and an exception,
\* give success = false.
C14_SuccessIffAllSteps ==
    TaskDone =>
        /\ t_result.success <=>
              (/\ t_result.error = "None"
               /\ Len(t_result.results) = Len(t_task.steps)
               /\ \A i \in 1..Len(t_result.results) : t_result.results[i].success)
        /\ (\E i \in 1..Len(t_log) : t_log[i].mode = "forward" /\ ~t_log[i].ok)
              => ~t_result.success
        /\ t_result.error # "None" => ~t_result.success

\* three steps, one of them skipped, the task succeeded
C14_Witness ==
    /\ TaskDone /\ t_result.success /\ Len(t_task.steps) = 3
    /\ \E i, j \in 1..3 : t_result.results[i] = Skipped /\ t_result.results[j] = Completed

\* C15: after a step failed, nothing of a later step is dispatched, and the
\* outcome list ends with the outcome of the failed step.
C15_HaltsAfterFailure ==
    /\ \A i \in 1..Len(t_result.results) :
          ~t_result.results[i].success =>
              /\ i = Len(t_result.results)
              /\ \A l \in 1..Len(t_log) : t_log[l].si <= i
    /\ \A j \in 1..Len(t_log) :
          (t_log[j].mode = "forward" /\ ~t_log[j].ok) =>
              /\ \A l \in j..Len(t_log) : t_log[l].si = t_log[j].si
              /\ Len(t_result.results) <= t_log[j].si
              /\ TaskDone =>
                    /\ Len(t_result.results) = t_log[j].si
                    /\ ~t_result.results[t_log[j].si].success

\* the first of three steps failed and was rolled back; two steps never ran
C15_Witness ==
    /\ TaskDone /\ Len(t_task.steps) = 3
    /\ Len(t_result.results) = 1 /\ ~t_result.results[1].success
    /\ \E l \in 1..Len(t_log) : t_log[l].mode = "rollback"

\* the step a dispatched command belongs to: a step of the task, or the
\* rollback step of the failed step that has this command
StepsOfEntry(e) ==
    IF e.mode = "forward"
      THEN {t_task.steps[e.si]}
      ELSE {t_task.steps[e.si].rollback[r] : r \in
              {q \in 1..Len(t_task.steps[e.si].rollback) :
                  \E c \in 1..Len(t_task.steps[e.si].rollback[q].commands) :
                      t_task.steps[e.si].rollback[q].commands[c] = e.cmd}}

\* C16: every command dispatched for a step with confirm = true, be it a
\* plain step, an iteration of a loop or a rollback step, was dispatched in
\* a call of execute_commands whose confirmation was answered yes, and that
\* call is the one of this step and this iteration.
C16_ConfirmGate ==
    \A i \in 1..Len(t_log) :
        LET e == t_log[i]
            c == t_calls[e.call]
        IN  /\ c.si = e.si /\ c.mode = e.mode /\ c.it = e.it
            /\ \A step \in StepsOfEntry(e) :
                  step.confirm => (c.confirm /\ c.answer = "yes")

\* confirmed dispatches of a plain step, of a loop iteration and of a rollback
\* step, and a declined confirmation
C16_Witness ==
    /\ \E i \in 1..Len(t_log) :
          /\ t_log[i].mode = "forward" /\ t_log[i].it = 0
          /\ t_task.steps[t_log[i].si].confirm
    /\ \E i \in 1..Len(t_log) :
          /\ t_log[i].mode = "forward" /\ t_log[i].it = 2
          /\ t_task.steps[t_log[i].si].confirm
    /\ \E i \in 1..Len(t_log) :
          /\ t_log[i].mode = "rollback" /\ t_calls[t_log[i].call].confirm
    /\ \E k \in 1..Len(t_calls) : t_calls[k].answer = "no"

\* --------------------------------------------- claims: the shell, continued
\* C17: when the framer returns because the hard timeout has elapsed,
\* execute_command returns a result with success = false whose output is the
\* text accumulated so far.
C17_TimeoutIsFailure ==
    [][(/\ pc = "fr_loop" /\ now - start_time >= timeout /\ pc' = "ec_ret")
          => (~result'.success /\ result'.output = output)]_vars

\* execute_command has been called for a command whose result is not yet
\* in the results list
Dispatching == InFramer \/ pc = "ec_ret"

\* C18: a dispatch that ended with a transport error is the last dispatch of
\* the session, whatever stop_on_error is: execute_command is not called for
\* any later command.
C18_TransportErrorIsFatal ==
    \A i \in 1..Len(results) :
        results[i].error # "None" => (i = Len(results) /\ ~Dispatching)

\* ---------------------------------------------------- claims: the session
\* C19: every command dispatched while a successful connect is in force goes
\* to the connection of that connect, in the mode that connect selected from
\* the device type.
C19_ModeOfThisConnect ==
    \A i \in 1..Len(s_log) :
        s_log[i].selected # NoSelection =>
            /\ s_log[i].mode = s_log[i].selected.mode
            /\ s_log[i].client = s_log[i].selected.client

\* ------------------------------------------------ claims: the batch, continued
\* C20: in a sequential batch the call for a device does not start, and so
\* its session is not opened, before the results of all devices before it
\* are in self.results; at most one session is being used; and the result
\* list is in device input order.
C20_SequentialInOrder ==
    ~b_parallel =>
        /\ \A d \in Devs :
              b_job[d] # "queued" => \A e \in 1..(d - 1) : b_job[e] = "collected"
        /\ Cardinality(Running) <= 1
        /\ \A i \in 1..Len(b_results) : b_results[i].dev = i

\* a sequential batch over three devices, one of each fate, has returned
C20_Witness ==
    /\ BatchDone /\ ~b_parallel /\ Len(b_devices) = 3
    /\ {b_fate[d] : d \in Devs} = {"connect_failed", "raised", "returned"}
    /\ [i \in 1..Len(b_results) |-> b_results[i].dev] = <<1, 2, 3>>

\* C21: when batch_execute has returned, in either mode, every record has
\* the status success, failed or error, and the summary counts all of them:
\* total is the number of devices, success the number of devices whose
\* operation returned, and success + failed = total.
C21_SummaryOverAllResults ==
    BatchDone =>
        /\ \A i \in 1..Len(b_results) :
              b_results[i].status \in {"success", "failed", "error"}
        /\ b_summary.total = Len(b_devices)
        /\ b_summary.success = Cardinality({d \in Devs : b_fate[d] = "returned"})
        /\ b_summary.success + b_summary.failed = b_summary.total

\* a parallel batch of three devices: one success, one failed, one error
C21_Witness ==
    /\ BatchDone /\ b_parallel
    /\ b_summary = [total |-> 3, success |-> 1, failed |-> 2]
    /\ {b_results[i].status : i \in 1..Len(b_results)} = {"success", "failed", "error"}

\* ------------------------------------------------ claims: the experience log
\* the calls of add_experience that have returned
ReturnedAdds ==
    {<<w, k>> : w \in Writers, k \in 1..MaxAdds} \cap
    UNION {{<<w, k>> : k \in 1..(IF x_pc[w] = "idle" THEN x_calls[w] ELSE x_calls[w] - 1)} :
              w \in {v \in Writers : x_pc[v] # "new"}}
AllIdle == \A w \in Writers : x_pc[w] = "idle"

\* C22: when no add_experience call is in progress, index.json holds exactly
\* one entry for every call that has returned, no two entries have the same
\* id, and the experience file of every call is on disk as that call wrote it.
C22_SingleWriter ==
    AllIdle =>
        /\ \A c \in ReturnedAdds :
              Cardinality({i \in 1..Len(x_disk) : x_disk[i].call = c}) = 1
        /\ \A i, j \in 1..Len(x_disk) : x_disk[i].id = x_disk[j].id => i = j
        /\ \A c \in ReturnedAdds : \E f \in x_files : f.call = c

\* --------------------------------------------------------- claims: the CLI
Exited == m_pc = "exit"
CommandFailed == \E i \in 1..Len(results) : ~results[i].success
StepFailed == \E i \in 1..Len(t_log) : t_log[i].mode = "forward" /\ ~t_log[i].ok

\* C23: when main has exited and the connection failed, or neither a task nor
\* commands were given, or a dispatched command of the --commands list failed,
\* or a command of a task step failed, the exit code is 1.
C23_ExitCodeOneOnFailure ==
    Exited /\ (~m_connected \/ m_path = "none" \/ CommandFailed \/ StepFailed)
        => m_exit = 1

\* ------------------------------------------- claims: the device-type lookup
\* the spellings of one alias in different letter case
CaseClasses == {{"H3C", "h3c"}, {"Huawei", "huawei", "HUAWEI"},
                {"HP_Comware", "hp_comware"}, {"cisco", "Cisco"},
                {"ruijie", "Ruijie"}, {"juniper", "Juniper"}}
SameButCase(a, b) == a = b \/ \E cls \in CaseClasses : a \in cls /\ b \in cls

\* C24: two lookups whose arguments differ at most in letter case give the
\* same tag and the same mode, whatever was looked up in between (H3C and h3c
\* both give hp_comware in shell mode), and a missing type gives cisco_ios in
\* exec mode.
C24_LookupIgnoresCase ==
    /\ \A i, j \in 1..Len(n_log) :
          SameButCase(n_log[i].arg, n_log[j].arg)
              => n_log[i].tag = n_log[j].tag /\ n_log[i].mode = n_log[j].mode
    /\ \A i \in 1..Len(n_log) :
          /\ n_log[i].arg \in {"H3C", "h3c"}
                => n_log[i].tag = "hp_comware" /\ n_log[i].mode = "shell"
          /\ n_log[i].arg \in {"None", ""}
                => n_log[i].tag = "cisco_ios" /\ n_log[i].mode = "exec"
C24_Witness ==
    /\ Len(n_log) = 2
    /\ n_log[1] = [arg |-> "H3C", tag |-> "hp_comware", mode |-> "shell"]
    /\ n_log[2] = [arg |-> "h3c", tag |-> "hp_comware", mode |-> "shell"]

\* ------------------------------------------------------ claims: the rollback
\* the calls of execute_commands made by rollback steps, in order
RollbackCalls == SelectSeq(t_calls, LAMBDA c : c.mode = "rollback")
RollbackLog == SelectSeq(t_log, LAMBDA e : e.mode = "rollback")
InRollback == TaskDone /\ t_mode = "rollback"

\* C25: when execute_task has returned after a rollback, the rollback steps
\* were run in the order of the reversed list, and all of them unless an
\* exception (the end of the input at a confirmation) left the last one run:
\* a failed rollback command ends neither the rollback nor the call, which
\* returns success = false, and without an error when nothing was raised.
C25_RollbackBestEffort ==
    InRollback =>
        /\ Len(RollbackCalls) <= Len(t_rb)
        /\ \A k \in 1..Len(RollbackCalls) : RollbackCalls[k].cmds = t_rb[k].commands
        /\ Len(RollbackCalls) < Len(t_rb)
              => /\ RollbackCalls # <<>>
                 /\ RollbackCalls[Len(RollbackCalls)].answer = "eof"
        /\ ~t_result.success
        /\ (\A k \in 1..Len(RollbackCalls) : RollbackCalls[k].answer # "eof")
              => t_result.error = "None"
\* the command of the first rollback step failed and the second step was run
C25_Witness ==
    /\ InRollback
    /\ Len(t_rb) = 2 /\ Len(RollbackCalls) = 2
    /\ Len(RollbackLog) = 2
    /\ ~RollbackLog[1].ok /\ RollbackLog[1].cmd = t_rb[1].commands[1]
    /\ RollbackLog[2].cmd = t_rb[2].commands[1]

\* the step of the task that failed, when the last recorded step failed
FailedStep == t_task.steps[Len(t_result.results)]
StepHasFailed ==
    /\ TaskDone
    /\ t_result.results # <<>>
    /\ ~t_result.results[Len(t_result.results)].success

\* C27: when execute_task has returned and a step failed, the rollback steps
\* run were those of the failed step's rollback list, last to first, each
\* once; and none were run if the step has no rollback list.
C27_FailedStepRollbackReversed ==
    StepHasFailed =>
        IF FailedStep.has_rb
          THEN /\ Len(RollbackCalls) = Len(FailedStep.rollback)
               /\ \A k \in 1..Len(RollbackCalls) :
                     RollbackCalls[k].cmds =
                        FailedStep.rollback[Len(FailedStep.rollback) + 1 - k].commands
          ELSE RollbackCalls = <<>>

\* ------------------------------------------------- claims: execute_commands
CommandsReturned == pc = "ec_done"

\* C26: when execute_commands has returned, every command text written to
\* the session during the call has its record in the returned list, in the
\* order of writing, and a record without a written command is the failed
\* record of a command whose write raised.
C26_OneRecordPerSentCommand ==
    CommandsReturned =>
        /\ Len(CmdsSent) <= Len(results)
        /\ \A i \in 1..Len(CmdsSent) : results[i].command = CmdsSent[i]
        /\ \A i \in (Len(CmdsSent) + 1)..Len(results) : ~results[i].success

\* ------------------------------------------- claims: the framer's triggers
\* a step of the framer (the device's steps change none of the three)
FramerStep == InFramer /\ (pc' # pc \/ now' # now \/ output' # output)
\* the framer is at the head of its loop with the hard timeout elapsed
HardTimeout == pc = "fr_loop" /\ now - start_time >= timeout
\* the framer is at its idle check, nothing has arrived since its last read
\* and that read is at least the idle timeout ago
IdleElapsed == pc = "fr_loop" /\ avail = <<>> /\ now - last_data_time >= IdleTimeout
\* the last chunk the framer read ended with a token that it answered
LastReadHadToken ==
    /\ Len(output) >= 2
    /\ output[Len(output) - 1][1] = "more_a" /\ output[Len(output)][1] = "more_b"
    /\ keys_sent = CountTokens(output)

\* C28: a return of the framer that is not the one of the hard timeout has
\* an output that reached the length gate, and is either the return after a
\* grace interval (the chunk read before it matched the prompt, nothing is
\* available after it) or the return of the idle check; so an output under
\* the gate is returned at the hard timeout only.
C28_EarlyReturnNeedsGate ==
    [][(InFramer /\ pc' = "ec_ret" /\ result'.success /\ ~HardTimeout)
          => /\ TextLen(result'.output) >= MinLen
             /\ \/ /\ pc = "fr_grace" /\ PromptMatch(chunk) /\ avail = <<>>
                   /\ now = last_data_time + SleepGrace
                \/ IdleElapsed]_vars
\* the framer returned at its idle check, before the hard timeout
C28_Witness ==
    /\ Returned
    /\ now - start_time < timeout
    /\ avail = <<>> /\ now - last_data_time > IdleTimeout
    /\ TextLen(result.output) > MinLen

\* C29 as stated: a chunk (without the token) that matches the prompt with
\* the output over the gate starts one grace interval; after it the framer
\* completes if nothing is available, and if bytes are available it does not
\* complete and its next iteration reads them.
C29_GraceThenCompleteOrRead ==
    [][/\ (/\ FramerStep /\ pc = "fr_loop" /\ ~HardTimeout /\ avail # <<>>
           /\ ~HasToken(avail) /\ PromptMatch(avail)
           /\ TextLen(output \o avail) > MinLen)
          => (pc' = "fr_grace" /\ now' = now + SleepGrace)
       /\ (FramerStep /\ pc = "fr_grace" /\ avail = <<>>)
          => (pc' = "ec_ret" /\ result'.success /\ result'.output = output)
       /\ (FramerStep /\ pc = "fr_grace" /\ avail # <<>>)
          => (pc' = "fr_loop" /\ output' = output /\ avail' = avail)
       /\ (FramerStep /\ pc = "fr_loop" /\ chunk # <<>>)
          => (avail # <<>> /\ output' = output \o avail /\ avail' = <<>>)]_vars

\* C29 amended: the same, but the bytes that arrived during the grace interval
\* are read only if the hard timeout has not elapsed at the next iteration;
\* otherwise the framer returns what it has and leaves them unread.
C29_GraceThenCompleteOrLoop ==
    [][/\ (/\ FramerStep /\ pc = "fr_loop" /\ ~HardTimeout /\ avail # <<>>
           /\ ~HasToken(avail) /\ PromptMatch(avail)
           /\ TextLen(output \o avail) > MinLen)
          => (pc' = "fr_grace" /\ now' = now + SleepGrace)
       /\ (FramerStep /\ pc = "fr_grace" /\ avail = <<>>)
          => (pc' = "ec_ret" /\ result'.success /\ result'.output = output)
       /\ (FramerStep /\ pc = "fr_grace" /\ avail # <<>>)
          => (pc' = "fr_loop" /\ output' = output /\ avail' = avail)
       /\ (FramerStep /\ pc = "fr_loop" /\ chunk # <<>>)
          => /\ avail # <<>>
             /\ IF HardTimeout
                  THEN /\ pc' = "ec_ret" /\ result'.output = output
                       /\ avail' = avail
                  ELSE output' = output \o avail /\ avail' = <<>>]_vars
\* bytes arrived during the grace interval and the framer is back at the
\* head of its loop, in time to read them
C29_Witness ==
    /\ pc = "fr_loop" /\ chunk # <<>> /\ avail # <<>>
    /\ PromptMatch(chunk) /\ now = last_data_time + SleepGrace + SleepPoll
    /\ ~HardTimeout

\* C30 as stated: the iteration that reads a chunk with the token sends the
\* key and goes back to the head of the loop (or the send raises): it neither
\* completes nor starts a grace interval; and a return while the last chunk
\* read is such a chunk is the return of the hard timeout.
C30_TokenChunkNeverCompletes ==
    [][/\ (/\ FramerStep /\ pc = "fr_loop" /\ ~HardTimeout
           /\ avail # <<>> /\ CountTokens(avail) > 0)
          => /\ ~(pc' = "ec_ret" /\ result'.success)
             /\ pc' # "fr_grace"
             /\ pc' = "fr_loop"
                   => (sent' = Append(sent, <<Lit(" ", 0)>>) /\ now' = now + SleepMore)
       /\ (InFramer /\ pc' = "ec_ret" /\ result'.success /\ LastReadHadToken)
          => HardTimeout]_vars

\* C30 amended: the same, but while the last chunk read is one with the token
\* the framer also returns at its idle check, when nothing has arrived for
\* the idle timeout since that chunk and the output is over the gate.
C30_TokenChunkNotInItsIteration ==
    [][/\ (/\ FramerStep /\ pc = "fr_loop" /\ ~HardTimeout
           /\ avail # <<>> /\ CountTokens(avail) > 0)
          => /\ ~(pc' = "ec_ret" /\ result'.success)
             /\ pc' # "fr_grace"
             /\ pc' = "fr_loop"
                   => (sent' = Append(sent, <<Lit(" ", 0)>>) /\ now' = now + SleepMore)
       /\ (InFramer /\ pc' = "ec_ret" /\ result'.success /\ LastReadHadToken)
          => (HardTimeout \/ (IdleElapsed /\ TextLen(output) > MinLen))]_vars
\* the first chunk read held the late banner with its prompt and the first
\* page with its token, over the gate: the key was sent, the loop goes on
C30_Witness ==
    /\ pc = "fr_loop" /\ keys_sent = 1
    /\ last_data_time = 0 /\ now = SleepMore
    /\ PromptMatch(output) /\ LastReadHadToken
    /\ TextLen(output) > MinLen

\* ------------------------------------- claims: the task engine, continued
\* the items of the iterable a variable is bound to: the strings of a list,
\* the characters of a string
WholeItems(v) ==
    IF IsList(v) THEN [i \in 1..Len(v) |-> <<Lit(v[i][2], v[i][3])>>]
    ELSE [i \in 1..Len(Chars(v)) |-> <<Chars(v)[i]>>]

\* the step is a loop over a reference to one bound variable
IsRefLoop(step) ==
    /\ step.loop.kind = "ref"
    /\ Len(step.loop.ref) = 1 /\ step.loop.ref[1][1] = "ph"
    /\ Has(t_task.variables, step.loop.ref[1][2])

\* C31: a loop step over a {{var}} reference that ran to its end has run
\* its commands once per item of the iterable bound to var, with the loop
\* variable bound to each whole item, in order.
C31_RefLoopPerItem ==
    \A si \in 1..Len(t_task.steps) :
        LET step == t_task.steps[si]
            calls == ForwardCalls(si)
        IN  (/\ IsRefLoop(step)
             /\ si <= Len(t_result.results)
             /\ t_result.results[si] = Completed)
            => LET want == WholeItems(Get(t_task.variables, step.loop.ref[1][2]))
               IN  /\ Len(calls) = Len(want)
                   /\ \A k \in 1..Len(calls) :
                         Get(calls[k].vars, step.loop.item_var) = want[k]

\* what the claim says a condition evaluates to under the variables d
CondHolds(cond, d) ==
    IF cond.kind = "equals"
      THEN ResolveVariables(cond.args[1], d) = ResolveVariables(cond.args[2], d)
      ELSE IF cond.kind = "exists"
        THEN \E i \in 1..Len(d) : d[i][1] = cond.name /\ Len(d[i][2]) > 0
        ELSE TRUE

\* C32: _execute_step runs a conditional step exactly when its condition
\* holds under the variables of that moment: `equals` when the two operands,
\* each substituted, are equal; `exists` when the variable is bound to a
\* non-empty value; a condition of any other kind always; otherwise the step
\* is recorded as skipped and nothing of it is called.
C32_ConditionEvaluation ==
    [][(/\ t_pc = "step" /\ t_mode = "forward"
        /\ t_step.cond.kind # "none" /\ ~CondRaises(t_step.cond))
        => IF CondHolds(t_step.cond, t_vars)
             THEN t_pc' \in {"call", "iter"} /\ t_result' = t_result
             ELSE /\ t_result'.results = Append(t_result.results, Skipped)
                  /\ t_pc' = "next" /\ t_calls' = t_calls]_vars

\* a step whose `exists` names a variable bound to the empty string was
\* skipped, and steps with a true `equals` and with a condition of an unknown
\* kind ran their commands
C32_Witness ==
    /\ TaskDone
    /\ \E si, sj, sk \in 1..Len(t_result.results) :
          /\ t_task.steps[si].cond.kind = "exists"
          /\ Has(t_task.variables, t_task.steps[si].cond.name)
          /\ t_result.results[si] = Skipped
          /\ t_task.steps[sj].cond.kind = "equals" /\ ForwardLog(sj) # <<>>
          /\ t_task.steps[sk].cond.kind = "not_equals" /\ ForwardLog(sk) # <<>>

\* the dispatches of the call number k of _execute_commands_in_step
CallLog(k) == SelectSeq(t_log, LAMBDA e : e.call = k)
\* that call of execute_commands has returned
CallReturned(k) == k < Len(t_calls) \/ t_pc # "cmds"

\* C33: in a call of execute_commands for a step of the task, the commands
\* are dispatched in list order; with stop_on_error = true a failed command
\* is the last one dispatched and its record the last of the returned list;
\* with stop_on_error = false a call that was not declined dispatches every
\* command of its list; and a step that has an outcome is failed exactly
\* when one of its commands failed.
C33_StopOnError ==
    /\ \A k \in 1..Len(t_calls) :
          LET c == t_calls[k]
              log == CallLog(k)
          IN  c.mode = "forward" =>
                /\ Len(log) <= Len(c.cmds)
                /\ \A j \in 1..Len(log) : log[j].cmd = RewriteSave(c.cmds[j])
                /\ t_task.steps[c.si].soe =>
                      \A j \in 1..Len(log) : ~log[j].ok => j = Len(log)
                /\ (/\ ~t_task.steps[c.si].soe /\ CallReturned(k)
                    /\ c.answer \in {"none", "yes"})
                      => Len(log) = Len(c.cmds)
    /\ (t_pc = "ret" /\ t_calls # <<>>) =>
          LET log == CallLog(Len(t_calls))
          IN  /\ Len(t_res) = Len(log)
              /\ \A j \in 1..Len(log) :
                    t_res[j] = [command |-> log[j].cmd, success |-> log[j].ok]
    /\ \A si \in 1..Len(t_result.results) :
          ~t_result.results[si].success
              <=> \E j \in 1..Len(t_log) :
                      t_log[j].mode = "forward" /\ t_log[j].si = si /\ ~t_log[j].ok

\* with stop_on_error = false the first command of a step failed, the second
\* one was dispatched all the same, and the step is failed
C33_Witness ==
    \E si \in 1..Len(t_result.results) :
        /\ ~t_task.steps[si].soe
        /\ Len(ForwardLog(si)) = 2
        /\ ~ForwardLog(si)[1].ok /\ ForwardLog(si)[2].ok
        /\ ~t_result.results[si].success

\* --------------------------------------------- claims: the shell, continued
\* C34: the output recorded for a command holds only what the device emitted
\* in answer to that command: nothing of the answer to an earlier command,
\* left unread when the framer of that command returned, is in it.
C34_OutputOfThisCommand ==
    Returned => \A k \in 1..Len(result.output) : OfCurrent(result.output[k])

\* ------------------------------------------------ claims: the batch, continued
\* C35: when execute_on_device has returned for a device, the session it
\* opened for that device is closed, whether the operation returned or raised.
C35_SessionClosedOnReturn ==
    \A d \in Devs :
        (b_job[d] \in {"finished", "collected"} /\ b_fate[d] \in {"returned", "raised"})
            => d \notin b_open

\* C38: a device whose result has the status 'success' had no command fail:
\* when send_command raised for one of the commands of
\* command_execute_operation, the status is 'error' or 'failed'.
C38_SuccessMeansCommandsSucceeded ==
    \A d \in Devs :
        b_fate[d] = "command_failed" =>
            (b_job[d] \in {"finished", "collected"}
                => b_result[d].status \in {"error", "failed"})

\* ------------------------------------- claims: the confirmation of a step
\* C36: a step of the task whose confirmation was declined is not counted as
\* completed: its outcome is not a success, steps_completed does not count
\* it, and the task does not return success = true.
C36_DeclinedNotCompleted ==
    \A k \in 1..Len(t_calls) :
        LET c == t_calls[k]
        IN  (c.mode = "forward" /\ c.confirm /\ c.answer = "no") =>
              /\ Len(t_result.results) >= c.si => ~t_result.results[c.si].success
              /\ t_result.steps_completed < c.si
              /\ TaskDone => ~t_result.success

\* ------------------------------------------- claims: the variables of a task
\* C37: execute_task does not change the variables of the task: a call made
\* for a step that is not a loop resolves its commands with the variables
\* the task was given, a call of a loop with these and the loop variable, and
\* when the task has returned the variables dict is what it was before.
C37_VariablesUnchanged ==
    /\ \A k \in 1..Len(t_calls) :
          LET c == t_calls[k]
          IN  IF c.it = 0
                THEN c.vars = t_task.variables
                ELSE \E item \in {Get(c.vars, "item")} :
                        c.vars = Bind(t_task.variables, "item", item)
    /\ TaskDone => t_vars = t_task.variables

\* ------------------------------------------ claims: execute_commands, continued
\* a record of a failed command is in the results list
HasFailedRecord == \E i \in 1..Len(results) : ~results[i].success

\* C39: once execute_commands has recorded a failed command under
\* stop_on_error = true, it dispatches nothing more in that call: no further
\* command of the list and no trailing `save force`; what was written to the
\* session is one text per record at most.
C39_NothingSentAfterFailure ==
    (stop_on_error /\ HasFailedRecord) =>
        /\ ~saving
        /\ pc \in {"ec_save", "ec_done"}
        /\ Len(CmdsSent) <= Len(results)

\* the command is the save command: its verb is `save`
IsSaveCommand(cmd) == cmd[1][2] \in {"save", "SAVE", "save force"}
GivenWithForce(cmd) == cmd[1][2] = "save force"

\* C40: every text written to the session is the command of the list at its
\* position, unchanged, except that a save command given without force is
\* written as `save force`; a command that is not a save command is written
\* as it was given.
C40_SentAsGiven ==
    \A i \in 1..Len(sent) :
        sent[i] = IF IsSaveCommand(commands[i]) /\ ~GivenWithForce(commands[i])
                    THEN <<Lit("save force", 0)>>
                    ELSE commands[i]

=============================================================================
